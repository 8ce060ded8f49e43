-------------------------- MODULE OfflineQueueProofs --------------------------
(***************************************************************************)
(* The two offline queues of the web application, whose items are sent     *)
(* again after faults: the one whose requests have a key (IdempotentSync)  *)
(* and the one of the mobile pages, whose requests have none               *)
(* (MobileQueues).  What holds of them for any number of actions, runs,    *)
(* calls and replays, and under every fault of the models.                 *)
(***************************************************************************)
EXTENDS MCIdempotentSync, MobileQueues, FiniteSums

(* Part 1: IdempotentSync. *)
Over == {"ok", "conflict", "error"}

(* A run that waits or has an outcome, and a call that is under way, are   *)
(* about an action; a call answers the run that waits for this action, and *)
(* a run waits for one call.                                               *)
InHand ==
  /\ \A r \in Run : phase[r] \in Over \cup {"waiting"} => current[r] \in Action
  /\ \A c \in Call : stage[c] # "free" => about[c] \in Action
  /\ \A c \in Call, r \in Run :
       caller[c] = r => stage[c] # "free" /\ phase[r] = "waiting" /\ current[r] = about[c]
  /\ \A c, d \in Call : caller[c] \in Run /\ caller[c] = caller[d] => c = d

TypeInv == TypeOK /\ InHand

(* What the server and the runs know of an action's effect. *)
Known ==
  /\ \A c \in Call : stage[c] = "storing" => applied[about[c]] > 0
  /\ \A r \in Run : phase[r] = "ok" => applied[current[r]] > 0
  /\ \A r \in Run : phase[r] = "conflict" => current[r] \in refused

(* The inductive invariant, together with the types. *)
SyncInv == KeyImpliesApplied /\ NothingSilentlyLost /\ Known
-----------------------------------------------------------------------------

LEMMA InitInv == Init => TypeInv /\ SyncInv
BY NoRunAssumption
   DEF Init, TypeInv, TypeOK, InHand, Over, Phase, Stage, SyncInv, KeyImpliesApplied,
       NothingSilentlyLost, Known

(* A call that ends leaves the others as they were. *)
LEMMA AnswerTyped ==
  ASSUME TypeInv, NEW c \in Call, NEW outcome \in Over, Answer(c, outcome), stage[c] # "free",
         keyRow' \in [Action -> {"none", "valid", "expired"}],
         applied' \in [Action -> Nat],
         refused' \subseteq Action
  PROVE  TypeInv'
<1> USE DEF TypeInv, TypeOK, InHand, Answer, Over, Phase, Stage
<1>1. TypeOK'
  BY NoRunAssumption
<1>2. InHand'
  BY NoRunAssumption
<1> QED BY <1>1, <1>2

(* The runs go on. *)
LEMMA ClientTyped ==
  ASSUME TypeInv, NEW r \in Run,
         \/ ProcessSyncQueue(r)
         \/ \E a \in Action : FetchOffline(r, a) \/ \E c \in Call : SendAction(r, a, c)
         \/ RemoveSynced(r) \/ MarkFailed(r) \/ EndRun(r)
  PROVE  TypeInv'
<1> USE DEF TypeInv, TypeOK, InHand, Over, Phase, Stage
<1>1. CASE ProcessSyncQueue(r)
  BY <1>1 DEF ProcessSyncQueue, calls, server
<1>2. ASSUME NEW a \in Action, FetchOffline(r, a) PROVE TypeInv'
  BY <1>2 DEF FetchOffline, Take, calls, server
<1>3. ASSUME NEW a \in Action, NEW c \in Call, SendAction(r, a, c) PROVE TypeInv'
  <2>1. TypeOK' BY <1>3 DEF SendAction, Take, server
  <2>2. InHand' BY <1>3, NoRunAssumption DEF SendAction, Take, server
  <2> QED BY <2>1, <2>2
<1>4. CASE RemoveSynced(r)
  BY <1>4 DEF RemoveSynced, Resume, calls, server
<1>5. CASE MarkFailed(r)
  BY <1>5 DEF MarkFailed, Resume, calls, server
<1>6. CASE EndRun(r)
  BY <1>6 DEF EndRun, calls, server
<1> QED BY <1>1, <1>2, <1>3, <1>4, <1>5, <1>6

(* So do the calls. *)
LEMMA ServerTyped ==
  ASSUME TypeInv, NEW c \in Call,
         FindExisting(c) \/ Handle(c) \/ Refuse(c) \/ Store(c) \/ ServerDies(c)
  PROVE  TypeInv'
<1> USE DEF TypeInv, TypeOK, InHand, Over, Phase, Stage
<1>1. ASSUME NEW s \in Stage \ {"free"}, stage[c] # "free", Reach(c, s),
             UNCHANGED <<keyRow, refused>>, applied' \in [Action -> Nat]
      PROVE  TypeInv'
  BY <1>1 DEF Reach, client
<1>2. CASE FindExisting(c)
  BY <1>1, <1>2, AnswerTyped DEF FindExisting, server
<1>3. CASE Handle(c)
  <2>1. applied' \in [Action -> Nat] BY <1>3 DEF Handle
  <2> QED BY <1>1, <1>3, <2>1 DEF Handle
<1>4. CASE Refuse(c)
  <2>1. refused' \subseteq Action BY <1>4 DEF Refuse
  <2> QED BY <1>4, <2>1, AnswerTyped DEF Refuse
<1>5. CASE Store(c)
  <2>1. keyRow' \in [Action -> {"none", "valid", "expired"}] BY <1>5 DEF Store
  <2> QED BY <1>5, <2>1, AnswerTyped DEF Store
<1>6. CASE ServerDies(c)
  BY <1>6, AnswerTyped DEF ServerDies, server
<1> QED BY <1>2, <1>3, <1>4, <1>5, <1>6

LEMMA StepTyped == TypeInv /\ [Next]_vars => TypeInv'
<1> SUFFICES ASSUME TypeInv, [Next]_vars PROVE TypeInv'
  OBVIOUS
<1> USE DEF TypeInv, TypeOK, InHand, Over, Phase, Stage
<1>1. CASE UNCHANGED vars
  BY <1>1 DEF vars, client, calls, server
<1>2. ASSUME NEW a \in Action, QueueAction(a) PROVE TypeInv'
  BY <1>2 DEF QueueAction, calls, server
<1>3. ASSUME NEW a \in Action, Expire(a) PROVE TypeInv'
  BY <1>3 DEF Expire, client, calls
<1>4. ASSUME NEW r \in Run, LoseAnswer(r) PROVE TypeInv'
  BY <1>4, NoRunAssumption DEF LoseAnswer, server
<1>5. CASE CloseTab
  BY <1>5, NoRunAssumption DEF CloseTab, server
<1> QED BY <1>1, <1>2, <1>3, <1>4, <1>5, ClientTyped, ServerTyped DEF Next

(* Every reachable state is well typed.                                    *)
THEOREM TypeCorrect == Spec => []TypeOK
<1>1. Init => TypeInv BY InitInv
<1>2. TypeInv /\ [Next]_vars => TypeInv' BY StepTyped
<1>3. TypeInv => TypeOK BY DEF TypeInv
<1> QED BY <1>1, <1>2, <1>3, PTL DEF Spec
-----------------------------------------------------------------------------

(* An answer that is true of its action tells the run the truth. *)
LEMMA AnswerKnown ==
  ASSUME TypeInv, SyncInv, NEW c \in Call, NEW outcome \in Over, Answer(c, outcome),
         stage[c] # "free",
         outcome = "ok" => applied'[about[c]] > 0,
         outcome = "conflict" => about[c] \in refused',
         \A a \in Action : applied'[a] = applied[a],
         refused \subseteq refused',
         \A a \in Action : keyRow'[a] # "none" => applied[a] > 0 /\ a \in Keyed
  PROVE  SyncInv'
<1> USE DEF TypeInv, TypeOK, InHand, SyncInv, KeyImpliesApplied, NothingSilentlyLost, Known,
            Answer, Over
<1>1. KeyImpliesApplied' /\ NothingSilentlyLost'
  OBVIOUS
<1>2. Known'
  <2>1. \A d \in Call : stage'[d] = "storing" => applied'[about'[d]] > 0
    OBVIOUS
  <2>2. ASSUME NEW r \in Run, phase'[r] = "ok" PROVE applied'[current'[r]] > 0
    BY <2>2
  <2>3. ASSUME NEW r \in Run, phase'[r] = "conflict" PROVE current'[r] \in refused'
    BY <2>3
  <2> QED BY <2>1, <2>2, <2>3
<1> QED BY <1>1, <1>2

LEMMA StepSync == TypeInv /\ SyncInv /\ [Next]_vars => SyncInv'
<1> SUFFICES ASSUME TypeInv, SyncInv, [Next]_vars PROVE SyncInv'
  OBVIOUS
<1> USE DEF TypeInv, TypeOK, InHand, SyncInv, KeyImpliesApplied, NothingSilentlyLost, Known,
            Over
<1>1. CASE UNCHANGED vars
  BY <1>1 DEF vars, client, calls, server
<1>2. ASSUME NEW a \in Action, QueueAction(a) PROVE SyncInv'
  BY <1>2 DEF QueueAction, calls, server
<1>3. ASSUME NEW a \in Action, Expire(a) PROVE SyncInv'
  BY <1>3 DEF Expire, client, calls
<1>4. ASSUME NEW r \in Run, LoseAnswer(r) PROVE SyncInv'
  BY <1>4 DEF LoseAnswer, server
<1>5. CASE CloseTab
  BY <1>5 DEF CloseTab, server
<1>6. ASSUME NEW r \in Run, ProcessSyncQueue(r) PROVE SyncInv'
  BY <1>6 DEF ProcessSyncQueue, calls, server
<1>7. ASSUME NEW r \in Run, NEW a \in Action, NEW p \in {"waiting", "error"}, Take(r, a, p),
             \A c \in Call : stage'[c] = "storing" => stage[c] = "storing" /\ about'[c] = about[c]
      PROVE  SyncInv'
  BY <1>7 DEF Take, server
<1>8. ASSUME NEW r \in Run, NEW a \in Action, FetchOffline(r, a) PROVE SyncInv'
  BY <1>7, <1>8 DEF FetchOffline, calls
<1>9. ASSUME NEW r \in Run, NEW a \in Action, NEW c \in Call, SendAction(r, a, c) PROVE SyncInv'
  <2>1. \A d \in Call : stage'[d] = "storing" => stage[d] = "storing" /\ about'[d] = about[d]
    BY <1>9 DEF SendAction
  <2> QED BY <1>7, <1>9, <2>1 DEF SendAction
<1>10. ASSUME NEW r \in Run, RemoveSynced(r) PROVE SyncInv'
  BY <1>10 DEF RemoveSynced, Resume, calls, server
<1>11. ASSUME NEW r \in Run, MarkFailed(r) PROVE SyncInv'
  BY <1>11 DEF MarkFailed, Resume, calls, server
<1>12. ASSUME NEW r \in Run, EndRun(r) PROVE SyncInv'
  BY <1>12 DEF EndRun, calls, server
<1>13. ASSUME NEW c \in Call, FindExisting(c) PROVE SyncInv'
  <2>1. CASE about[c] \in Keyed /\ keyRow[about[c]] = "valid"
    BY <1>13, <2>1, AnswerKnown DEF FindExisting, server
  <2>2. CASE ~(about[c] \in Keyed /\ keyRow[about[c]] = "valid")
    BY <1>13, <2>2 DEF FindExisting, Reach, client, server
  <2> QED BY <2>1, <2>2
<1>14. ASSUME NEW c \in Call, Handle(c) PROVE SyncInv'
  <2>1. about[c] \in Action BY <1>14 DEF Handle
  <2>2. \A a \in Action : applied'[a] \in Nat /\ applied'[a] >= applied[a]
    BY <1>14, <2>1 DEF Handle
  <2>3. applied'[about[c]] > 0 BY <1>14, <2>1 DEF Handle
  <2> QED BY <1>14, <2>1, <2>2, <2>3 DEF Handle, Reach, client
<1>15. ASSUME NEW c \in Call, Refuse(c) PROVE SyncInv'
  BY <1>15, AnswerKnown DEF Refuse
<1>16. ASSUME NEW c \in Call, Store(c) PROVE SyncInv'
  <2>1. about[c] \in Action /\ applied[about[c]] > 0 BY <1>16 DEF Store
  <2>2. \A a \in Action : keyRow'[a] # "none" => applied[a] > 0 /\ a \in Keyed
    BY <1>16, <2>1 DEF Store
  <2> QED BY <1>16, <2>1, <2>2, AnswerKnown DEF Store
<1>17. ASSUME NEW c \in Call, ServerDies(c) PROVE SyncInv'
  BY <1>17, AnswerKnown DEF ServerDies, server
<1> QED BY <1>1, <1>2, <1>3, <1>4, <1>5, <1>6, <1>8, <1>9, <1>10, <1>11, <1>12, <1>13, <1>14,
           <1>15, <1>16, <1>17
        DEF Next

LEMMA AlwaysSync == Spec => []SyncInv
<1>1. Init => TypeInv /\ SyncInv BY InitInv
<1>2. TypeInv /\ SyncInv /\ [Next]_vars => (TypeInv /\ SyncInv)' BY StepTyped, StepSync
<1> QED BY <1>1, <1>2, PTL DEF Spec

(* No action leaves the queue without an effect or a refusal.              *)
THEOREM NothingLost == Spec => []NothingSilentlyLost
<1>1. SyncInv => NothingSilentlyLost BY DEF SyncInv
<1> QED BY <1>1, AlwaysSync, PTL

(* No key answers for a request that had no effect.                        *)
THEOREM KeysCorrect == Spec => []KeyImpliesApplied
<1>1. SyncInv => KeyImpliesApplied BY DEF SyncInv
<1> QED BY <1>1, AlwaysSync, PTL
-----------------------------------------------------------------------------

(* A call without an excuse that is past its lookup about the action. *)
Bare(c, a) == c \notin excuse /\ PastLookup(c) /\ about[c] = a

(* At most one call about an action is past its lookup without an excuse.  *)
(* While it handles the request there is an event for every effect so far; *)
(* otherwise one effect may be without: the one that left the key, or      *)
(* whose call is about to store it.                                        *)
Covered(a) ==
  /\ \A c, d \in Call : Bare(c, a) /\ Bare(d, a) => c = d
  /\ \A c \in Call : Bare(c, a) /\ stage[c] = "handling" => applied[a] <= excused[a]
  /\ applied[a] <= 1 + excused[a]
  /\ \/ applied[a] <= excused[a]
     \/ keyRow[a] # "none"
     \/ \E c \in Call : Bare(c, a) /\ stage[c] = "storing"

GapTypes == excuse \subseteq Call /\ excused \in [Action -> Nat]

OnceInv == TypeInv /\ GapTypes /\ \A a \in Action : Covered(a)

(* What a step of one call does to the histories. *)
LEMMA GapStep ==
  ASSUME TypeInv, GapTypes, MCNext, NEW c \in Call,
         \A d \in Call \ {c} : stage'[d] = stage[d] /\ about'[d] = about[d]
  PROVE  /\ \A d \in Call \ {c} : d \in excuse' <=> d \in excuse /\ PastLookup(d)
         /\ c \in excuse' <=> PastLookup(c)' /\ (c \in excuse \/ (stage[c] = "arrived" /\ Unanswerable(c)))
         /\ \A a \in Action : excused'[a] =
              IF about[c] = a /\ Accounts(c) THEN excused[a] + 1 ELSE excused[a]
<1>1. \A d \in Call \ {c} : ~Accounts(d)
  BY DEF Accounts
<1>2. \A d \in Call : PastLookup(d) <=> stage[d] \in {"handling", "storing"}
  BY DEF PastLookup
<1>3. \A d \in Call : PastLookup(d)' <=> stage'[d] \in {"handling", "storing"}
  BY DEF PastLookup
<1>4. \A d \in Call : d \in excuse' <=>
        PastLookup(d)' /\ (d \in excuse \/ (stage[d] = "arrived" /\ Unanswerable(d)))
  BY DEF MCNext
<1>5. \A a \in Action : excused'[a] =
        IF \E d \in Call : about[d] = a /\ Accounts(d) THEN excused[a] + 1 ELSE excused[a]
  BY DEF MCNext
<1> QED BY <1>1, <1>2, <1>3, <1>4, <1>5

(* A step that is no effect of the action's, and in which no call about it *)
(* passes its lookup or stores its key.                                    *)
LEMMA StaysCovered ==
  ASSUME TypeInv, TypeInv', GapTypes, NEW a \in Action, Covered(a),
         applied'[a] = applied[a], excused'[a] = excused[a],
         keyRow[a] # "none" => keyRow'[a] # "none",
         \A c \in Call : Bare(c, a)' => Bare(c, a) /\ stage'[c] = stage[c],
         \A c \in Call : Bare(c, a) /\ stage[c] = "storing" =>
           keyRow'[a] # "none" \/ (Bare(c, a)' /\ stage'[c] = "storing")
  PROVE  Covered(a)'
<1>1. /\ \A c, d \in Call : Bare(c, a)' /\ Bare(d, a)' => c = d
      /\ \A c \in Call : Bare(c, a)' /\ stage'[c] = "handling" => applied'[a] <= excused'[a]
  BY DEF Covered
<1>2. applied'[a] <= 1 + excused'[a]
  BY DEF Covered
<1>3. \/ applied'[a] <= excused'[a]
      \/ keyRow'[a] # "none"
      \/ \E c \in Call : Bare(c, a)' /\ stage'[c] = "storing"
  BY DEF Covered
<1> QED BY <1>1, <1>2, <1>3 DEF Covered

LEMMA OnceStep == OnceInv /\ [MCNext]_<<vars, gaps>> => OnceInv'
<1> SUFFICES ASSUME OnceInv, [MCNext]_<<vars, gaps>> PROVE OnceInv'
  OBVIOUS
<1>1. [Next]_vars
  BY DEF MCNext
<1>2. TypeInv /\ TypeInv' /\ GapTypes
  BY <1>1, StepTyped DEF OnceInv
<1>3. GapTypes'
  BY <1>2 DEF GapTypes, MCNext, gaps
<1>4. CASE UNCHANGED <<vars, gaps>>
  BY <1>2, <1>4 DEF OnceInv, GapTypes, Covered, Bare, PastLookup, vars, calls, server, gaps
<1>5. ASSUME MCNext, NEW a \in Action PROVE Covered(a)'
  <2>1. Covered(a)
    BY DEF OnceInv
  <2>2. applied[a] \in Nat /\ excused[a] \in Nat
    BY <1>2 DEF TypeInv, TypeOK, GapTypes
  <2>3. ASSUME UNCHANGED <<keyRow, applied>>, UNCHANGED <<stage, about>> PROVE Covered(a)'
    <3>1. \A c \in Call : ~Accounts(c)
      BY <2>3 DEF Accounts
    <3>2. excused'[a] = excused[a]
      BY <1>5, <3>1 DEF MCNext
    <3>3. \A c \in Call : Bare(c, a)' <=> Bare(c, a)
      BY <1>5, <2>3 DEF MCNext, Bare, PastLookup
    <3> QED BY <1>2, <2>1, <2>3, <3>2, <3>3, StaysCovered
  <2>4. ASSUME NEW b \in Action, Expire(b) PROVE Covered(a)'
    <3>1. UNCHANGED <<stage, about, applied>> /\ (keyRow[a] # "none" => keyRow'[a] # "none")
      BY <1>2, <2>4 DEF Expire, calls, TypeInv, TypeOK
    <3>2. \A c \in Call : ~Accounts(c)
      BY <3>1 DEF Accounts
    <3>3. excused'[a] = excused[a]
      BY <1>5, <3>2 DEF MCNext
    <3>4. \A c \in Call : Bare(c, a)' <=> Bare(c, a)
      BY <1>5, <3>1 DEF MCNext, Bare, PastLookup
    <3> QED BY <1>2, <2>1, <3>1, <3>3, <3>4, StaysCovered
  (* A step of one call. *)
  <2>5. ASSUME NEW c \in Call,
               \A d \in Call \ {c} : stage'[d] = stage[d] /\ about'[d] = about[d]
        PROVE  /\ \A d \in Call \ {c} : Bare(d, a)' <=> Bare(d, a)
               /\ excused'[a] = IF about[c] = a /\ Accounts(c) THEN excused[a] + 1 ELSE excused[a]
    BY <1>2, <1>5, <2>5, GapStep DEF Bare, PastLookup
  <2>6. ASSUME NEW c \in Call,
               \A d \in Call \ {c} : stage'[d] = stage[d] /\ about'[d] = about[d],
               ~(about[c] = a /\ Accounts(c)), ~Bare(c, a)',
               Bare(c, a) /\ stage[c] = "storing" => keyRow'[a] # "none",
               applied'[a] = applied[a], keyRow[a] # "none" => keyRow'[a] # "none"
        PROVE  Covered(a)'
    BY <1>2, <2>1, <2>5, <2>6, StaysCovered
  <2>7. ASSUME NEW c \in Call, NEW outcome, Answer(c, outcome)
        PROVE  /\ \A d \in Call \ {c} : stage'[d] = stage[d] /\ about'[d] = about[d]
               /\ ~Bare(c, a)' /\ stage'[c] = "free"
    BY <1>2, <2>7 DEF Answer, Bare, PastLookup, TypeInv, TypeOK
  <2>8. ASSUME NEW r \in Run, NEW b \in Action, NEW c \in Call, SendAction(r, b, c) PROVE Covered(a)'
    <3>1. /\ \A d \in Call \ {c} : stage'[d] = stage[d] /\ about'[d] = about[d]
          /\ stage[c] = "free" /\ stage'[c] = "arrived" /\ UNCHANGED <<applied, keyRow>>
      BY <1>2, <2>8 DEF SendAction, Take, server, TypeInv, TypeOK
    <3>2. ~Accounts(c) /\ ~Bare(c, a) /\ ~Bare(c, a)'
      BY <3>1 DEF Accounts, Bare, PastLookup
    <3> QED BY <2>6, <3>1, <3>2
  <2>9. ASSUME NEW c \in Call, FindExisting(c) PROVE Covered(a)'
    <3>1. stage[c] = "arrived" /\ UNCHANGED <<applied, keyRow>> /\ ~Bare(c, a) /\ ~Accounts(c)
      BY <2>9 DEF FindExisting, server, Bare, PastLookup, Accounts
    <3>2. CASE about[c] \in Keyed /\ keyRow[about[c]] = "valid"
      BY <2>6, <2>7, <2>9, <3>1, <3>2 DEF FindExisting
    <3>3. CASE ~(about[c] \in Keyed /\ keyRow[about[c]] = "valid")
      <4>1. /\ \A d \in Call \ {c} : stage'[d] = stage[d] /\ about'[d] = about[d]
            /\ stage'[c] = "handling" /\ about' = about
        BY <1>2, <2>9, <3>3 DEF FindExisting, Reach, TypeInv, TypeOK
      <4>2. CASE ~Bare(c, a)'
        BY <2>6, <3>1, <4>1, <4>2
      <4>3. CASE Bare(c, a)'
        <5>1. about[c] = a /\ c \notin excuse'
          BY <4>1, <4>3 DEF Bare
        <5>2. PastLookup(c)'
          BY <4>1 DEF PastLookup
        <5>3. ~Unanswerable(c)
          BY <1>2, <1>5, <3>1, <4>1, <5>1, <5>2, GapStep
        <5>4. /\ keyRow[a] = "none"
              /\ \A d \in Call \ {c} : ~(PastLookup(d) /\ about[d] = a)
          BY <1>2, <3>3, <5>1, <5>3 DEF Unanswerable, TypeInv, TypeOK
        <5>5. \A d \in Call : ~Bare(d, a)
          BY <3>1, <5>4 DEF Bare
        <5>6. applied[a] <= excused[a]
          BY <2>1, <5>4, <5>5 DEF Covered
        <5>7. \A d \in Call : Bare(d, a)' => d = c
          BY <2>5, <4>1, <5>5
        <5>8. applied'[a] <= excused'[a] /\ excused'[a] = excused[a]
          BY <2>5, <3>1, <4>1, <5>6
        <5> QED BY <2>2, <3>1, <5>7, <5>8 DEF Covered
      <4> QED BY <4>2, <4>3
    <3> QED BY <3>2, <3>3
  <2>10. ASSUME NEW c \in Call, Handle(c) PROVE Covered(a)'
    <3>1. /\ \A d \in Call \ {c} : stage'[d] = stage[d] /\ about'[d] = about[d]
          /\ stage[c] = "handling" /\ stage'[c] = "storing" /\ about' = about /\ keyRow' = keyRow
          /\ about[c] \in Action
      BY <1>2, <2>10 DEF Handle, Reach, TypeInv, TypeOK, InHand
    <3>2. CASE about[c] # a
      <4>1. applied'[a] = applied[a] /\ ~Bare(c, a) /\ ~Bare(c, a)'
        BY <1>2, <2>10, <3>1, <3>2 DEF Handle, Bare, TypeInv, TypeOK
      <4> QED BY <2>6, <3>1, <3>2, <4>1
    <3>3. CASE about[c] = a
      <4>1. applied'[a] = applied[a] + 1
        BY <1>2, <2>10, <3>3 DEF Handle, TypeInv, TypeOK
      <4>2. PastLookup(c) /\ PastLookup(c)' /\ (c \in excuse' <=> c \in excuse)
        BY <1>2, <1>5, <3>1, GapStep DEF PastLookup
      <4>3. Bare(c, a)' <=> Bare(c, a)
        BY <3>1, <4>2 DEF Bare
      <4>4. \A d \in Call : Bare(d, a)' <=> Bare(d, a)
        BY <2>5, <3>1, <4>3
      <4>5. CASE c \in excuse
        <5>1. excused'[a] = excused[a] + 1 /\ ~Bare(c, a)
          BY <2>5, <3>1, <3>3, <4>5 DEF Accounts, Bare
        <5>2. /\ \A d, e \in Call : Bare(d, a)' /\ Bare(e, a)' => d = e
              /\ \A d \in Call : Bare(d, a)' /\ stage'[d] = "handling" => applied'[a] <= excused'[a]
          BY <2>1, <2>2, <3>1, <4>1, <4>4, <5>1 DEF Covered
        <5>3. \/ applied'[a] <= excused'[a]
              \/ keyRow'[a] # "none"
              \/ \E d \in Call : Bare(d, a)' /\ stage'[d] = "storing"
          BY <2>1, <2>2, <3>1, <4>1, <4>4, <5>1 DEF Covered
        <5>4. applied'[a] <= 1 + excused'[a]
          BY <2>1, <2>2, <4>1, <5>1 DEF Covered
        <5> QED BY <5>2, <5>3, <5>4 DEF Covered
      <4>6. CASE c \notin excuse
        <5>1. excused'[a] = excused[a] /\ Bare(c, a)
          BY <2>5, <3>1, <3>3, <4>2, <4>6 DEF Accounts, Bare
        <5>2. applied[a] <= excused[a] /\ \A d \in Call : Bare(d, a) => d = c
          BY <2>1, <3>1, <5>1 DEF Covered
        <5>3. \A d \in Call : Bare(d, a)' => d = c
          BY <4>4, <5>2
        <5>4. applied'[a] <= 1 + excused'[a]
          BY <2>2, <4>1, <5>1, <5>2
        <5>5. Bare(c, a)' /\ stage'[c] = "storing"
          BY <3>1, <4>3, <5>1
        <5> QED BY <5>3, <5>4, <5>5 DEF Covered
      <4> QED BY <4>5, <4>6
    <3> QED BY <3>2, <3>3
  (* A call that ends. *)
  <2>11. ASSUME NEW c \in Call, NEW outcome, Answer(c, outcome), applied'[a] = applied[a],
                keyRow[a] # "none" => keyRow'[a] # "none"
         PROVE  Covered(a)'
    <3>1. CASE ~(about[c] = a /\ Accounts(c))
      <4>1. Bare(c, a) /\ stage[c] = "storing" => keyRow'[a] # "none"
        BY <2>7, <2>11, <3>1 DEF Bare, Accounts
      <4> QED BY <2>6, <2>7, <2>11, <3>1, <4>1
    <3>2. CASE about[c] = a /\ Accounts(c)
      <4>1. excused'[a] = excused[a] + 1
        BY <2>5, <2>7, <2>11, <3>2
      <4>2. applied'[a] <= excused'[a]
        BY <2>1, <2>2, <2>11, <4>1 DEF Covered
      <4>3. Bare(c, a) /\ \A d \in Call : Bare(d, a)' => Bare(d, a)
        BY <2>5, <2>7, <2>11, <3>2 DEF Bare, PastLookup, Accounts
      <4> QED BY <2>1, <2>2, <2>11, <4>1, <4>2, <4>3 DEF Covered
    <3> QED BY <3>1, <3>2
  <2>12. ASSUME NEW c \in Call, Refuse(c) PROVE Covered(a)'
    BY <2>11, <2>12 DEF Refuse
  <2>13. ASSUME NEW c \in Call, Store(c) PROVE Covered(a)'
    <3>1. UNCHANGED applied /\ \E outcome : Answer(c, outcome)
      BY <2>13 DEF Store
    <3>2. keyRow[a] # "none" => keyRow'[a] # "none"
      BY <1>2, <2>13 DEF Store, TypeInv, TypeOK
    <3> QED BY <2>11, <3>1, <3>2
  <2>14. ASSUME NEW c \in Call, ServerDies(c) PROVE Covered(a)'
    BY <2>11, <2>14 DEF ServerDies, server
  <2>15. ASSUME \/ \E b \in Action : QueueAction(b)
                \/ \E r \in Run : \/ ProcessSyncQueue(r) \/ LoseAnswer(r)
                                  \/ \E b \in Action : FetchOffline(r, b)
                                  \/ RemoveSynced(r) \/ MarkFailed(r) \/ EndRun(r)
                \/ CloseTab
        PROVE  UNCHANGED <<keyRow, applied>> /\ UNCHANGED <<stage, about>>
    BY <2>15 DEF QueueAction, ProcessSyncQueue, LoseAnswer, FetchOffline, Take, RemoveSynced,
                 MarkFailed, Resume, EndRun, CloseTab, calls, server
  <2> QED BY <1>5, <2>3, <2>4, <2>8, <2>9, <2>10, <2>12, <2>13, <2>14, <2>15 DEF MCNext, Next
<1> QED BY <1>2, <1>3, <1>4, <1>5 DEF OnceInv

(* However often an action is sent, and by how many runs, its mutation     *)
(* takes effect once, and once more for every event that the history       *)
(* records: a PUT, a key of another day, a request under way beside it, or *)
(* an effect that left no key.                                             *)
THEOREM EffectOnce == MCSpec => []AppliedOnce
<1>1. MCInit => OnceInv
  <2> SUFFICES ASSUME MCInit PROVE OnceInv
    OBVIOUS
  <2>1. TypeInv
    BY InitInv DEF MCInit
  <2>2. GapTypes
    BY DEF MCInit, GapTypes
  <2>3. ASSUME NEW a \in Action PROVE Covered(a)
    BY <2>3 DEF MCInit, Init, Covered, Bare, PastLookup
  <2> QED BY <2>1, <2>2, <2>3 DEF OnceInv
<1>2. OnceInv => AppliedOnce
  BY DEF OnceInv, Covered, AppliedOnce
<1> QED BY <1>1, <1>2, OnceStep, PTL DEF MCSpec

-----------------------------------------------------------------------------
(* Part 2: MobileQueues. *)

(* The items that the worker has been through. *)
Made == 1..done

PhoneTyped ==
  /\ script \in Scripts /\ done \in 0..Len(script)
  /\ queue \subseteq Made
  /\ replay \in [Replay -> [page : Pages \cup {"none"}, left : SUBSET Made,
                            at : {"idle", "next", "waiting", "ok", "refused", "removing"}]]
  /\ wire \subseteq [item : Made, by : Replay \cup {"form", "nobody"}]
  /\ purchase \in {"OPEN", "COMPLETED"}
  /\ book \in Int /\ shelf \in Int /\ counted \in [Item -> Int]
  /\ stored \subseteq Made /\ entered \subseteq Made /\ answered \subseteq Made
  /\ last \in 0..done /\ stale \subseteq Made /\ sound \in BOOLEAN

(* What a replay has in hand was stored for its page; a request that it    *)
(* sent is the oldest of what it has left, and it has an answer only of    *)
(* one that was handled.                                                   *)
InHands ==
  \A r \in Replay :
    /\ \A i \in replay[r].left : i \in stored /\ PageOf(i) = replay[r].page
    /\ replay[r].at \in {"waiting", "ok", "refused", "removing"} => replay[r].left # {}
    /\ replay[r].at \in {"ok", "refused", "removing"} => Oldest(r) \in answered
    /\ replay[r].at = "ok" \/ (replay[r].at = "removing" /\ replay[r].page # "worker")
         => Oldest(r) \in entered
    /\ \A m \in wire : m.by = r => replay[r].at = "waiting" /\ m.item = Oldest(r)

(* What a page's replay does not have left, or has sent, everything before *)
(* it was applied.                                                         *)
AppliedBefore(i, older) ==
  \A j \in stored \ older : PageOf(j) = PageOf(i) /\ j < i => j \in entered

InOrder ==
  /\ \A r \in Replay : replay[r].page # "worker" =>
       \A i \in replay[r].left : AppliedBefore(i, replay[r].left)
  /\ \A m \in wire : PageOf(m.item) # "worker" /\ m.item \in stored => AppliedBefore(m.item, {})

QueueInv ==
  /\ PhoneTyped /\ InHands /\ InOrder
  /\ queue \subseteq stored
  /\ NothingDropped /\ QueueOrderKept

(* The delivery of the purchase order is booked once.                      *)
Received(i) == Op(i) = "receive" /\ i \in entered

Delivery == purchase = "COMPLETED" <=> \E i \in Made : Received(i)

(* What was taken in since the last count and is not booked. *)
Missing ==
  IF \E i \in Made : Op(i) = "receive" /\ i > last /\ i \notin entered THEN Arriving ELSE 0

(* A count that stock has not overtaken says what is on the shelf, and no  *)
(* delivery came after it or is on its way.                                *)
Fresh(i) ==
  /\ counted[i] = shelf
  /\ OnItsWay("receive") = {}
  /\ \A j \in Made : Op(j) = "receive" => j < i

(* After a sound count the books lack what was taken in since, and only a  *)
(* delivery taken in since is on its way.                                  *)
Counts ==
  /\ \A i \in OnItsWay("count") \ stale : Fresh(i)
  /\ sound => /\ book = shelf - Missing
              /\ \A j \in OnItsWay("receive") : j > last

BookInv == QueueInv /\ Delivery /\ Counts

-----------------------------------------------------------------------------
LEMMA OldestIn ==
  ASSUME PhoneTyped, NEW r \in Replay, replay[r].left # {}
  PROVE  Oldest(r) \in replay[r].left /\ \A j \in replay[r].left : Oldest(r) <= j
<1>1. replay[r].left \in SUBSET Nat
  BY DEF PhoneTyped, Made
<1>2. \E i \in replay[r].left : \A j \in replay[r].left : i <= j
  BY <1>1, LeastNat
<1> QED BY <1>2 DEF Oldest

LEMMA SameOldest ==
  ASSUME NEW r \in Replay, replay'[r].left = replay[r].left
  PROVE  Oldest(r)' = Oldest(r)
BY DEF Oldest

LEMMA Scripted ==
  ASSUME PhoneTyped
  PROVE  /\ Len(script) \in Nat /\ DOMAIN script = Item /\ done \in Nat
         /\ Made \subseteq Item /\ Made \subseteq Nat
         /\ \A i \in Item : PageOf(i) \in Pages
         /\ \A i, j \in Item : Op(i) = "receive" /\ Op(j) = "receive" => i = j
<1>1. script \in Seq(Acts)
  BY ScriptsAssumption DEF PhoneTyped
<1>2. Len(script) \in Nat /\ DOMAIN script = Item /\ \A i \in Item : script[i] \in Acts
  BY <1>1 DEF Item
<1>3. Made \subseteq Item /\ Made \subseteq Nat /\ done \in Nat
  BY <1>2 DEF PhoneTyped, Made, Item
<1>4. \A i, j \in Item : Op(i) = "receive" /\ Op(j) = "receive" => i = j
  BY <1>2, ArrivalAssumption DEF PhoneTyped, Op
<1> QED BY <1>2, <1>3, <1>4 DEF PageOf, Acts

LEMMA InitTyped == PhoneInit => PhoneTyped
<1> SUFFICES ASSUME PhoneInit PROVE PhoneTyped
  OBVIOUS
<1>1. script \in Scripts /\ Len(script) \in Nat
  BY ScriptsAssumption DEF PhoneInit
<1>2. done \in 0..Len(script)
  BY <1>1 DEF PhoneInit
<1>3. book \in Int /\ shelf \in Int /\ counted \in [Item -> Int]
  BY QuantityAssumption DEF PhoneInit
<1>4. replay \in [Replay -> [page : Pages \cup {"none"}, left : SUBSET Made,
                             at : {"idle", "next", "waiting", "ok", "refused", "removing"}]]
  BY DEF PhoneInit, Idle
<1>5. last \in 0..done /\ stale \subseteq Made /\ sound \in BOOLEAN
  <2>1. last = 0 /\ done = 0 /\ stale = {} /\ sound = FALSE
    BY DEF PhoneInit
  <2>2. 0 \in 0..0
    OBVIOUS
  <2> QED BY <2>1, <2>2
<1>6. /\ queue \subseteq Made /\ wire \subseteq [item : Made, by : Replay \cup {"form", "nobody"}]
      /\ purchase \in {"OPEN", "COMPLETED"}
      /\ stored \subseteq Made /\ entered \subseteq Made /\ answered \subseteq Made
  BY DEF PhoneInit
<1> QED BY <1>1, <1>2, <1>3, <1>4, <1>5, <1>6 DEF PhoneTyped

LEMMA FailureTyped ==
  ASSUME PhoneTyped, NEW r \in Replay
  PROVE  AfterFailure(r) \in [page : Pages \cup {"none"}, left : SUBSET Made,
                              at : {"idle", "next", "waiting", "ok", "refused", "removing"}]
BY DEF PhoneTyped, AfterFailure, Later, Idle

LEMMA StartTyped ==
  ASSUME PhoneTyped, NEW r \in Replay, NEW page \in Pages, Starts(r, page),
         UNCHANGED <<script, done>>
  PROVE  replay' \in [Replay -> [page : Pages \cup {"none"}, left : SUBSET Made',
                            at : {"idle", "next", "waiting", "ok", "refused", "removing"}]]
BY DEF PhoneTyped, Starts, ListQueue, Made

(* What is on its way was made. *)
LEMMA OnWayMade == ASSUME PhoneTyped, NEW op PROVE OnItsWay(op) \subseteq Made
BY DEF OnItsWay, PhoneTyped

LEMMA StepPhoneTyped == PhoneTyped /\ [PhoneNext]_phoneVars => PhoneTyped'
<1> SUFFICES ASSUME PhoneTyped, [PhoneNext]_phoneVars PROVE PhoneTyped'
  OBVIOUS
<1>0. Len(script) \in Nat /\ done \in Nat /\ DOMAIN script = Item /\ Made \subseteq Item
  BY Scripted
<1> USE DEF PhoneTyped, tables, history
<1>1. CASE UNCHANGED phoneVars
  BY <1>1 DEF phoneVars, phone, Made, Item
<1>2. CASE Perform
  <2>1. done + 1 \in Made' /\ Made \subseteq Made' /\ done' \in 0..Len(script) /\ done + 1 \in Item
    BY <1>0, <1>2 DEF Perform, Made, Item
  <2>2. wire' \subseteq [item : Made', by : Replay \cup {"form", "nobody"}]
    BY <1>2, <2>1 DEF Perform
  <2>3. shelf' \in Int /\ counted' \in [Item' -> Int]
    BY <1>2, <2>1, QuantityAssumption DEF Perform, Item
  <2>4. queue' \subseteq Made' /\ stored' \subseteq Made' /\ stale' \subseteq Made'
    BY <1>2, <2>1, OnWayMade DEF Perform
  <2>5. replay' \in [Replay -> [page : Pages \cup {"none"}, left : SUBSET Made',
                            at : {"idle", "next", "waiting", "ok", "refused", "removing"}]]
    BY <1>2, <2>1 DEF Perform
  <2>6. last' \in 0..done' /\ sound' \in BOOLEAN
    BY <1>0, <1>2 DEF Perform
  <2> QED BY <1>2, <2>1, <2>2, <2>3, <2>4, <2>5, <2>6 DEF Perform
<1>3. ASSUME NEW m \in wire, Intercept(m) PROVE PhoneTyped'
  <2>1. wire' \subseteq [item : Made, by : Replay \cup {"form", "nobody"}]
    BY <1>3 DEF Intercept, Drops
  <2> QED BY <1>3, <2>1 DEF Intercept, Made, Item
<1>4. ASSUME NEW m \in wire, Serve(m) PROVE PhoneTyped'
  <2>1. m.item \in Made /\ m.by \in Replay \cup {"form", "nobody"}
    OBVIOUS
  <2>2. PICK ok \in BOOLEAN :
          /\ IF ok THEN Does(m.item) /\ entered' = entered \cup {m.item}
             ELSE UNCHANGED <<tables, entered>>
          /\ replay' = IF m.by \in Replay
                       THEN [replay EXCEPT ![m.by].at = IF ok THEN "ok" ELSE "refused"] ELSE replay
    BY <1>4 DEF Serve
  <2>3. purchase' \in {"OPEN", "COMPLETED"} /\ book' \in Int
    BY <1>0, <2>1, <2>2, QuantityAssumption DEF Does
  <2>4. replay' \in [Replay -> [page : Pages \cup {"none"}, left : SUBSET Made,
                            at : {"idle", "next", "waiting", "ok", "refused", "removing"}]]
    BY <2>2
  <2>5. entered' \subseteq Made
    BY <2>1, <2>2
  <2>6. last' \in 0..done /\ sound' \in BOOLEAN
    <3>1. m.item \in 0..done
      BY <1>0, <2>1 DEF Made
    <3>2. (last' = m.item /\ sound' = (m.item \notin stale)) \/ UNCHANGED <<last, sound>>
      BY <1>4 DEF Serve
    <3>3. last \in 0..done /\ sound \in BOOLEAN
      OBVIOUS
    <3> QED BY <3>1, <3>2, <3>3
  <2> QED BY <1>4, <2>1, <2>3, <2>4, <2>5, <2>6 DEF Serve, Made, Item
<1>5. CASE GoOnline
  <2>1. CASE UNCHANGED replay
    BY <1>5, <2>1 DEF GoOnline, Made, Item
  <2>2. CASE \E r \in Replay, page \in Pages : Starts(r, page)
    BY <1>5, <2>2, StartTyped DEF GoOnline, Made, Item
  <2> QED BY <1>5, <2>1, <2>2 DEF GoOnline
<1>6. CASE GoOffline
  BY <1>6 DEF GoOffline, Made, Item
<1>7. CASE Sell
  <2>1. stale' \subseteq Made
    BY <1>7, OnWayMade DEF Sell
  <2> QED BY <1>7, <2>1 DEF Sell, phone, Made, Item
<1>8. ASSUME NEW r \in Replay, NEW page \in Pages, SyncQueue(r, page) PROVE PhoneTyped'
  BY <1>8, StartTyped DEF SyncQueue, Made, Item
<1>9. ASSUME NEW r \in Replay, Send(r) PROVE PhoneTyped'
  <2>1. CASE replay[r].left = {}
    BY <1>9, <2>1 DEF Send, Idle, Made, Item
  <2>2. CASE replay[r].left # {} /\ online
    <3>1. Oldest(r) \in Made
      BY <2>2, OldestIn
    <3>2. /\ replay' = [replay EXCEPT ![r].at = "waiting"]
          /\ wire' = wire \cup {[item |-> Oldest(r), by |-> r]}
          /\ UNCHANGED <<script, done, queue, purchase, book, shelf, counted, history>>
      BY <1>9, <2>2 DEF Send
    <3>3. wire' \subseteq [item : Made, by : Replay \cup {"form", "nobody"}]
      BY <3>1, <3>2
    <3>4. replay' \in [Replay -> [page : Pages \cup {"none"}, left : SUBSET Made,
                              at : {"idle", "next", "waiting", "ok", "refused", "removing"}]]
      BY <3>2
    <3> QED BY <3>2, <3>3, <3>4 DEF Made, Item
  <2>3. CASE replay[r].left # {} /\ ~online
    BY <1>9, <2>3, FailureTyped DEF Send, Made, Item
  <2> QED BY <2>1, <2>2, <2>3
<1>10. ASSUME NEW r \in Replay, Lose(r) PROVE PhoneTyped'
  <2>1. wire' \subseteq [item : Made, by : Replay \cup {"form", "nobody"}]
    BY <1>10 DEF Lose, Drops
  <2> QED BY <1>10, <2>1, FailureTyped DEF Lose, Made, Item
<1>11. ASSUME NEW r \in Replay, Close(r) PROVE PhoneTyped'
  BY <1>11 DEF Close, Idle, Made, Item
<1>12. ASSUME NEW r \in Replay, TakeAnswer(r) PROVE PhoneTyped'
  BY <1>12, FailureTyped DEF TakeAnswer, Made, Item
<1>13. ASSUME NEW r \in Replay, RemoveFromQueue(r) PROVE PhoneTyped'
  BY <1>13 DEF RemoveFromQueue, Later, Made, Item
<1> QED BY <1>1, <1>2, <1>3, <1>4, <1>5, <1>6, <1>7, <1>8, <1>9, <1>10, <1>11, <1>12, <1>13 DEF PhoneNext

-----------------------------------------------------------------------------
(* What a replay has in hand. *)
Hand(r) ==
  /\ \A i \in replay[r].left : i \in stored /\ PageOf(i) = replay[r].page
  /\ replay[r].at \in {"waiting", "ok", "refused", "removing"} => replay[r].left # {}
  /\ replay[r].at \in {"ok", "refused", "removing"} => Oldest(r) \in answered
  /\ replay[r].at = "ok" \/ (replay[r].at = "removing" /\ replay[r].page # "worker")
       => Oldest(r) \in entered
  /\ \A m \in wire : m.by = r => replay[r].at = "waiting" /\ m.item = Oldest(r)

(* It keeps what is true of it while nothing of it changes. *)
LEMMA HandKept ==
  ASSUME NEW r \in Replay, Hand(r), replay'[r] = replay[r], script' = script,
         stored \subseteq stored', entered \subseteq entered', answered \subseteq answered',
         \A m \in wire' : m.by = r => m \in wire
  PROVE  Hand(r)'
<1>1. Oldest(r)' = Oldest(r)
  BY SameOldest
<1> QED BY <1>1 DEF Hand, PageOf

(* A replay that is about to send, or that has ended, owes nothing yet. *)
LEMMA HandFresh ==
  ASSUME NEW r \in Replay, replay'[r].at \in {"idle", "next"},
         \A i \in replay'[r].left : i \in stored' /\ script'[i].page = replay'[r].page,
         \A m \in wire' : m.by # r
  PROVE  Hand(r)'
BY DEF Hand, PageOf

LEMMA HandFailed ==
  ASSUME PhoneTyped, NEW r \in Replay, Hand(r), script' = script, stored \subseteq stored',
         replay' = [replay EXCEPT ![r] = AfterFailure(r)], \A m \in wire' : m.by # r
  PROVE  Hand(r)'
<1>1. replay'[r] = AfterFailure(r)
  BY DEF PhoneTyped
<1>2. AfterFailure(r).at \in {"idle", "next"}
  BY DEF AfterFailure, Idle, PhoneTyped
<1>3. AfterFailure(r).left \subseteq replay[r].left
  BY DEF AfterFailure, Idle, PhoneTyped, Later
<1>4. AfterFailure(r).left = {} \/ AfterFailure(r).page = replay[r].page
  BY DEF AfterFailure, Idle, PhoneTyped
<1>5. \A i \in replay'[r].left : i \in stored' /\ script'[i].page = replay'[r].page
  BY <1>1, <1>3, <1>4 DEF Hand, PageOf
<1> QED BY <1>1, <1>2, <1>5, HandFresh

LEMMA StepInHand ==
  ASSUME PhoneTyped, InHands, queue \subseteq stored, [PhoneNext]_phoneVars
  PROVE  InHands'
<1>0. \A r \in Replay : Hand(r)
  BY DEF InHands, Hand
<1> SUFFICES ASSUME NEW q \in Replay PROVE Hand(q)'
  BY DEF InHands, Hand
<1>h. Hand(q) /\ (\A m \in wire : m.by = q => replay[q].at = "waiting" /\ m.item = Oldest(q))
  BY <1>0 DEF Hand
<1>l. \A i \in replay[q].left : i \in stored /\ PageOf(i) = replay[q].page
  BY <1>0 DEF Hand
<1>n. q \notin {"form", "nobody"}
  BY ReplayAssumption
<1> USE DEF tables, history
<1>1. CASE UNCHANGED phoneVars
  BY <1>1, <1>h, HandKept DEF phoneVars, phone
<1>2. CASE Perform
  <2>1. \A m \in wire' : m.by = q => m \in wire
    BY <1>2, <1>n DEF Perform
  <2> QED BY <1>2, <2>1, <1>h, HandKept DEF Perform
<1>3. ASSUME NEW m \in wire, Intercept(m) PROVE Hand(q)'
  <2>1. \A n \in wire' : n.by = q => n \in wire
    BY <1>3, <1>n DEF Intercept, Drops
  <2> QED BY <1>3, <2>1, <1>h, HandKept DEF Intercept
<1>4. ASSUME NEW m \in wire, Serve(m) PROVE Hand(q)'
  <2>1. PICK ok \in BOOLEAN :
          /\ IF ok THEN Does(m.item) /\ entered' = entered \cup {m.item}
             ELSE UNCHANGED <<tables, entered>>
          /\ replay' = IF m.by \in Replay
                       THEN [replay EXCEPT ![m.by].at = IF ok THEN "ok" ELSE "refused"] ELSE replay
    BY <1>4 DEF Serve
  <2>2. /\ wire' = wire \ {m} /\ answered' = answered \cup {m.item}
        /\ entered \subseteq entered' /\ UNCHANGED <<script, stored>>
        /\ ok => entered' = entered \cup {m.item}
    BY <1>4, <2>1 DEF Serve
  <2>3. CASE m.by # q
    <3>1. replay'[q] = replay[q]
      BY <2>1, <2>3 DEF PhoneTyped
    <3> QED BY <2>2, <3>1, <1>h, HandKept
  <2>4. CASE m.by = q
    <3>1. /\ replay'[q].at = IF ok THEN "ok" ELSE "refused"
          /\ replay'[q].left = replay[q].left /\ replay'[q].page = replay[q].page
      BY <2>1, <2>4 DEF PhoneTyped
    <3>2. Oldest(q)' = Oldest(q)
      BY <3>1, SameOldest
    <3>3. m.item = Oldest(q) /\ replay[q].left # {}
      BY <1>h, <2>4 DEF Hand
    <3>4. ASSUME NEW n \in wire', n.by = q PROVE FALSE
      <4>1. n \in wire /\ n # m /\ n.item = m.item
        BY <2>2, <3>3, <3>4, <1>h
      <4>2. /\ n = [item |-> n.item, by |-> n.by]
            /\ m = [item |-> m.item, by |-> m.by]
        BY <4>1 DEF PhoneTyped
      <4> QED BY <4>1, <4>2, <2>4, <3>4
    <3> QED BY <2>2, <3>1, <3>2, <3>3, <3>4, <1>l DEF Hand, PageOf
  <2> QED BY <2>3, <2>4
<1>5. ASSUME NEW r \in Replay, NEW page \in Pages, Starts(r, page),
             UNCHANGED <<script, wire, stored, entered, answered>>
      PROVE  Hand(q)'
  <2>1. CASE r = q
    <3>1. /\ replay'[q].at = "next" /\ replay'[q].page = page /\ replay'[q].left = ListQueue(page)
          /\ replay[q].at = "idle"
      BY <1>5, <2>1 DEF Starts, PhoneTyped
    <3> QED BY <1>5, <3>1, <1>h, HandFresh DEF ListQueue, PageOf
  <2>2. CASE r # q
    <3>1. replay'[q] = replay[q]
      BY <1>5, <2>2 DEF Starts, PhoneTyped
    <3> QED BY <1>5, <3>1, <1>h, HandKept
  <2> QED BY <2>1, <2>2
<1>6. CASE GoOnline
  <2>1. CASE UNCHANGED replay
    BY <1>6, <2>1, <1>h, HandKept DEF GoOnline
  <2> QED BY <1>6, <2>1, <1>5 DEF GoOnline
<1>7. CASE GoOffline
  BY <1>7, <1>h, HandKept DEF GoOffline
<1>8. CASE Sell
  BY <1>8, <1>h, HandKept DEF Sell, phone
<1>9. ASSUME NEW r \in Replay, NEW page \in Pages, SyncQueue(r, page) PROVE Hand(q)'
  BY <1>9, <1>5 DEF SyncQueue
<1>10. ASSUME NEW r \in Replay, r # q, Send(r) \/ Lose(r) \/ Close(r) \/ TakeAnswer(r) \/ RemoveFromQueue(r)
       PROVE Hand(q)'
  <2>1. replay'[q] = replay[q]
    BY <1>10 DEF Send, Lose, Close, TakeAnswer, RemoveFromQueue, PhoneTyped
  <2>2. \A m \in wire' : m.by = q => m \in wire
    BY <1>10, <1>n DEF Send, Lose, Drops, Close, TakeAnswer, RemoveFromQueue
  <2>3. UNCHANGED <<script, stored, entered, answered>>
    BY <1>10 DEF Send, Lose, Close, TakeAnswer, RemoveFromQueue
  <2> QED BY <2>1, <2>2, <2>3, <1>h, HandKept
<1>11. CASE Send(q)
  <2>0. replay[q].at = "next" /\ (\A m \in wire : m.by # q) /\ UNCHANGED <<script, stored, entered, answered>>
    BY <1>11, <1>h DEF Send
  <2>1. CASE replay[q].left = {}
    <3>1. replay'[q] = Idle /\ wire' = wire
      BY <1>11, <2>1 DEF Send, PhoneTyped
    <3> QED BY <2>0, <3>1, HandFresh DEF Idle
  <2>2. CASE replay[q].left # {} /\ online
    <3>1. /\ replay'[q].at = "waiting"
          /\ replay'[q].left = replay[q].left /\ replay'[q].page = replay[q].page
          /\ wire' = wire \cup {[item |-> Oldest(q), by |-> q]}
      BY <1>11, <2>2 DEF Send, PhoneTyped
    <3>2. Oldest(q)' = Oldest(q)
      BY <3>1, SameOldest
    <3> QED BY <2>0, <2>2, <3>1, <3>2, <1>l DEF Hand, PageOf
  <2>3. CASE replay[q].left # {} /\ ~online
    BY <2>0, <2>3, <1>11, <1>h, HandFailed DEF Send
  <2> QED BY <2>1, <2>2, <2>3
<1>12. CASE Lose(q)
  <2>1. ASSUME NEW n \in wire', n.by = q PROVE FALSE
    <3>1. n \in wire /\ n # [item |-> Oldest(q), by |-> q]
      BY <1>12, <1>n, <2>1 DEF Lose, Drops
    <3>2. n.item = Oldest(q) /\ n = [item |-> n.item, by |-> n.by]
      BY <3>1, <2>1, <1>h DEF PhoneTyped
    <3> QED BY <3>1, <3>2, <2>1
  <2> QED BY <1>12, <2>1, <1>h, HandFailed DEF Lose
<1>13. CASE Close(q)
  <2>1. replay'[q] = Idle /\ \A m \in wire' : m.by # q
    BY <1>13, <1>h DEF Close, PhoneTyped
  <2> QED BY <2>1, HandFresh DEF Idle
<1>14. CASE TakeAnswer(q)
  <2>0. (\A m \in wire' : m.by # q) /\ UNCHANGED <<script, stored, entered, answered>>
    BY <1>14, <1>h DEF TakeAnswer
  <2>1. CASE Succeeded(q)
    <3>1. /\ replay'[q].at = "removing"
          /\ replay'[q].left = replay[q].left /\ replay'[q].page = replay[q].page
      BY <1>14, <2>1 DEF TakeAnswer, PhoneTyped
    <3>2. Oldest(q)' = Oldest(q)
      BY <3>1, SameOldest
    <3>3. replay[q].left # {} /\ Oldest(q) \in answered
      BY <1>14, <1>h DEF TakeAnswer, Hand
    <3>4. replay[q].page # "worker" => Oldest(q) \in entered
      BY <1>h, <2>1 DEF Succeeded, Hand
    <3> QED BY <2>0, <3>1, <3>2, <3>3, <3>4, <1>l DEF Hand, PageOf
  <2>2. CASE ~ Succeeded(q)
    BY <2>0, <2>2, <1>14, <1>h, HandFailed DEF TakeAnswer
  <2> QED BY <2>1, <2>2
<1>15. CASE RemoveFromQueue(q)
  <2>1. /\ replay'[q].at = "next" /\ replay'[q].page = replay[q].page
        /\ replay'[q].left = Later(q) /\ UNCHANGED <<script, stored>>
    BY <1>15 DEF RemoveFromQueue, PhoneTyped
  <2>2. \A m \in wire' : m.by # q
    BY <1>15, <1>h DEF RemoveFromQueue
  <2> QED BY <2>1, <2>2, <1>l, HandFresh DEF Later, PageOf
<1> QED BY <1>1, <1>2, <1>3, <1>4, <1>6, <1>7, <1>8, <1>9, <1>10, <1>11, <1>12, <1>13, <1>14, <1>15
        DEF PhoneNext

-----------------------------------------------------------------------------
(* Items are stored when they are made, or by the service worker; they     *)
(* leave a queue only once the server has answered.                        *)
LEMMA StepStored ==
  ASSUME PhoneTyped, InHands, queue \subseteq stored, NothingDropped, [PhoneNext]_phoneVars
  PROVE  /\ queue' \subseteq stored' /\ NothingDropped'
         /\ script' = script /\ stored \subseteq stored' /\ entered \subseteq entered'
         /\ \A i \in stored' \ stored : i \in Made' \ Made \/ PageOf(i) = "worker"
<1> DEFINE Keeps == /\ queue' \subseteq stored' /\ NothingDropped'
                    /\ script' = script /\ stored \subseteq stored' /\ entered \subseteq entered'
                    /\ \A i \in stored' \ stored : i \in Made' \ Made \/ PageOf(i) = "worker"
<1> SUFFICES Keeps
  OBVIOUS
<1> USE DEF tables, history, NothingDropped, PageOf
<1>1. CASE UNCHANGED <<script, queue, stored, entered, answered>>
  BY <1>1
<1>2. CASE Perform
  <2>1. done + 1 \in Made' \ Made
    BY <1>2, Scripted DEF Perform, Made
  <2> QED BY <1>2, <2>1 DEF Perform
<1>3. ASSUME NEW m \in wire, Intercept(m) PROVE Keeps
  BY <1>3 DEF Intercept
<1>4. ASSUME NEW m \in wire, Serve(m) PROVE Keeps
  <2>1. /\ entered \subseteq entered' /\ answered \subseteq answered'
        /\ UNCHANGED <<script, queue, stored>>
    BY <1>4 DEF Serve
  <2> QED BY <2>1
<1>5. ASSUME NEW r \in Replay, RemoveFromQueue(r) PROVE Keeps
  <2>1. /\ queue' = queue \ {Oldest(r)} /\ replay[r].at = "removing"
        /\ UNCHANGED <<script, stored, entered, answered>>
    BY <1>5 DEF RemoveFromQueue
  <2>2. /\ Oldest(r) \in replay[r].left /\ PageOf(Oldest(r)) = replay[r].page
        /\ Oldest(r) \in answered /\ (replay[r].page # "worker" => Oldest(r) \in entered)
    BY <2>1, OldestIn DEF InHands
  <2> QED BY <2>1, <2>2
<1>6. \/ UNCHANGED <<script, queue, stored, entered, answered>> \/ Perform
      \/ \E m \in wire : Intercept(m) \/ Serve(m)
      \/ \E r \in Replay : RemoveFromQueue(r)
  BY DEF PhoneNext, phoneVars, phone, GoOnline, GoOffline, Sell, SyncQueue, Send, Lose, Close, TakeAnswer
<1> QED BY <1>1, <1>2, <1>3, <1>4, <1>5, <1>6

(* What was applied before an item stays so, and nothing that is made, or  *)
(* that the worker stores, comes before an item of a page.                 *)
LEMMA BeforeKept ==
  ASSUME PhoneTyped, InHands, queue \subseteq stored, NothingDropped, [PhoneNext]_phoneVars,
         NEW i \in Made, NEW older, NEW left, AppliedBefore(i, older), PageOf(i) # "worker",
         \A j \in older \ left : j \in entered'
  PROVE  \A j \in stored' \ left : script'[j].page = script'[i].page /\ j < i => j \in entered'
<1> SUFFICES ASSUME NEW j \in stored' \ left, script'[j].page = script'[i].page, j < i
             PROVE  j \in entered'
  OBVIOUS
<1>1. PageOf(j) = PageOf(i) /\ entered \subseteq entered'
  BY StepStored DEF PageOf
<1>2. j \in stored
  <2>0. PhoneTyped' /\ script' = script
    BY StepPhoneTyped, StepStored
  <2>1. i \in 1..done /\ j \in 1..done' /\ done \in Nat /\ done' \in Nat
    <3>1. done \in Nat /\ Len(script) \in Nat
      BY Scripted
    <3>2. done' \in 0..Len(script) /\ j \in Made'
      BY <2>0 DEF PhoneTyped
    <3> QED BY <3>1, <3>2 DEF Made
  <2>2. ~ (j \in Made' \ Made)
    BY <2>1 DEF Made
  <2> QED BY <1>1, <2>2, StepStored
<1> QED BY <1>1, <1>2 DEF AppliedBefore

LEMMA StepOrder ==
  ASSUME QueueInv, [PhoneNext]_phoneVars
  PROVE  QueueOrderKept'
<1> SUFFICES ASSUME NEW i \in stored', NEW j \in stored', script'[i].page # "worker",
                    script'[j].page # "worker", i < j,
                    script'[i].page = script'[j].page, j \in entered'
             PROVE  i \in entered'
  BY DEF QueueOrderKept, PageOf
<1> USE DEF QueueInv
<1>0. /\ script' = script /\ entered \subseteq entered' /\ PhoneTyped'
      /\ PageOf(i) = PageOf(j) /\ PageOf(j) # "worker"
  BY StepStored, StepPhoneTyped DEF PageOf
<1>1. CASE j \in entered
  <2>1. j \in Made /\ j \in stored
    BY <1>0, <1>1, StepStored DEF PhoneTyped
  <2>2. AppliedBefore(j, {})
    BY <2>1, <1>0, <1>1 DEF QueueOrderKept, AppliedBefore
  <2> QED BY <2>1, <2>2, <1>0, BeforeKept
<1>2. CASE j \notin entered
  <2>1. PICK m \in wire : Serve(m) /\ j = m.item
    BY <1>2 DEF PhoneNext, phoneVars, phone, tables, history, Perform, Intercept, GoOnline, GoOffline, Sell,
                SyncQueue, Send, Lose, Close, TakeAnswer, RemoveFromQueue, Serve
  <2>2. j \in stored /\ j \in Made
    BY <2>1 DEF Serve, PhoneTyped
  <2>3. AppliedBefore(j, {})
    BY <1>0, <2>1, <2>2 DEF InOrder
  <2> QED BY <2>2, <2>3, <1>0, BeforeKept
<1> QED BY <1>1, <1>2

(* How what a replay has left changes: it begins with all that is stored   *)
(* for its page, and a page's replay passes only what was applied.         *)
Passes(r) ==
  \/ replay'[r].left = {}
  \/ /\ replay'[r].page = replay[r].page /\ replay'[r].left \subseteq replay[r].left
     /\ replay[r].page # "worker" => \A j \in replay[r].left \ replay'[r].left : j \in entered
  \/ replay'[r].left = ListQueue(replay'[r].page) /\ UNCHANGED <<script, stored, entered>>

LEMMA LeftPasses ==
  ASSUME PhoneTyped, InHands, [PhoneNext]_phoneVars, NEW q \in Replay
  PROVE  Passes(q)
<1> USE DEF tables, history
<1>1. CASE replay'[q].page = replay[q].page /\ replay'[q].left = replay[q].left
  BY <1>1 DEF Passes
<1>2. ASSUME NEW r \in Replay, NEW page \in Pages, Starts(r, page), UNCHANGED <<script, stored, entered>>
      PROVE  Passes(q)
  <2>1. CASE r = q
    <3>1. replay'[q].page = page /\ replay'[q].left = ListQueue(page)
      BY <1>2, <2>1 DEF Starts, PhoneTyped
    <3> QED BY <1>2, <3>1 DEF Passes
  <2>2. CASE r # q
    BY <1>1, <1>2, <2>2 DEF Starts, PhoneTyped
  <2> QED BY <2>1, <2>2
<1>3. ASSUME NEW r \in Replay, replay' = [replay EXCEPT ![r] = AfterFailure(r)] PROVE Passes(q)
  <2>1. CASE r = q
    <3>1. replay'[q] = AfterFailure(q)
      BY <1>3, <2>1 DEF PhoneTyped
    <3>2. CASE replay[q].page = "worker"
      <4>1. replay'[q].page = replay[q].page /\ replay'[q].left = Later(q)
        BY <3>1, <3>2 DEF AfterFailure, PhoneTyped
      <4> QED BY <3>2, <4>1 DEF Passes, Later
    <3>3. CASE replay[q].page # "worker"
      BY <3>1, <3>3 DEF AfterFailure, Idle, Passes
    <3> QED BY <3>2, <3>3
  <2>2. CASE r # q
    BY <1>1, <1>3, <2>2 DEF PhoneTyped
  <2> QED BY <2>1, <2>2
<1>4. ASSUME NEW r \in Replay, replay' = [replay EXCEPT ![r] = Idle] PROVE Passes(q)
  <2>1. CASE r = q
    BY <1>4, <2>1 DEF Passes, Idle, PhoneTyped
  <2>2. CASE r # q
    BY <1>1, <1>4, <2>2 DEF PhoneTyped
  <2> QED BY <2>1, <2>2
<1>5. ASSUME NEW r \in Replay, RemoveFromQueue(r) PROVE Passes(q)
  <2>1. CASE r = q
    <3>1. /\ replay'[q].page = replay[q].page /\ replay'[q].left = Later(q)
          /\ replay[q].at = "removing"
      BY <1>5, <2>1 DEF RemoveFromQueue, PhoneTyped
    <3>2. replay[q].page # "worker" => Oldest(q) \in entered
      BY <3>1 DEF InHands
    <3> QED BY <3>1, <3>2 DEF Passes, Later
  <2>2. CASE r # q
    BY <1>1, <1>5, <2>2 DEF RemoveFromQueue, PhoneTyped
  <2> QED BY <2>1, <2>2
<1>6. ASSUME NEW r \in Replay, NEW at, replay' = [replay EXCEPT ![r].at = at] PROVE Passes(q)
  BY <1>1, <1>6 DEF PhoneTyped
<1>7. CASE UNCHANGED replay
  BY <1>1, <1>7
<1>8. CASE UNCHANGED phoneVars \/ Perform \/ GoOffline \/ Sell \/ \E m \in wire : Intercept(m)
  BY <1>7, <1>8 DEF phoneVars, phone, Perform, GoOffline, Sell, Intercept
<1>9. CASE GoOnline
  BY <1>2, <1>7, <1>9 DEF GoOnline
<1>10. ASSUME NEW m \in wire, Serve(m) PROVE Passes(q)
  <2>1. PICK ok \in BOOLEAN :
          replay' = IF m.by \in Replay
                    THEN [replay EXCEPT ![m.by].at = IF ok THEN "ok" ELSE "refused"] ELSE replay
    BY <1>10 DEF Serve
  <2> QED BY <2>1, <1>6, <1>7
<1>11. ASSUME NEW r \in Replay, (\E page \in Pages : SyncQueue(r, page)) PROVE Passes(q)
  BY <1>11, <1>2 DEF SyncQueue
<1>12. ASSUME NEW r \in Replay, Send(r) \/ Lose(r) \/ Close(r) \/ TakeAnswer(r) PROVE Passes(q)
  BY <1>12, <1>3, <1>4, <1>6 DEF Send, Lose, Close, TakeAnswer
<1> QED BY <1>5, <1>8, <1>9, <1>10, <1>11, <1>12 DEF PhoneNext

(* What is on the wire was there before, or is posted, or is the oldest    *)
(* that a replay has left.                                                 *)
LEMMA WireSteps ==
  ASSUME [PhoneNext]_phoneVars, NEW m \in wire'
  PROVE  \/ \E n \in wire : n.item = m.item
         \/ m.item = done + 1 /\ UNCHANGED stored
         \/ \E r \in Replay : /\ replay[r].left # {} /\ m.item = Oldest(r)
                              /\ UNCHANGED <<script, stored, entered>>
<1> USE DEF tables, history
<1>1. CASE Perform
  BY <1>1 DEF Perform
<1>2. ASSUME NEW r \in Replay, Send(r)
      PROVE  \/ \E n \in wire : n.item = m.item
             \/ \E q \in Replay : /\ replay[q].left # {} /\ m.item = Oldest(q)
                                  /\ UNCHANGED <<script, stored, entered>>
  BY <1>2 DEF Send
<1>3. ASSUME (\E r \in Replay : Lose(r)) \/ \E n \in wire : Intercept(n)
      PROVE  \E n \in wire : n.item = m.item
  <2>1. PICK n : Drops(n)
    BY <1>3 DEF Lose, Intercept
  <2> QED BY <2>1 DEF Drops
<1>4. CASE wire' \subseteq wire
  BY <1>4
<1>5. \/ Perform \/ (\E r \in Replay : Send(r) \/ Lose(r)) \/ (\E n \in wire : Intercept(n))
      \/ wire' \subseteq wire
  BY DEF PhoneNext, phoneVars, phone, GoOnline, GoOffline, Sell, Serve, SyncQueue, Close, TakeAnswer,
         RemoveFromQueue
<1> QED BY <1>1, <1>2, <1>3, <1>4, <1>5

LEMMA StepInOrder ==
  ASSUME QueueInv, [PhoneNext]_phoneVars
  PROVE  InOrder'
<1> USE DEF QueueInv
<1>0. script' = script /\ entered \subseteq entered' /\ queue \subseteq stored
  BY StepStored
<1>2. ASSUME NEW q \in Replay, replay'[q].page # "worker", NEW i \in replay'[q].left
      PROVE  \A j \in stored' \ replay'[q].left :
               script'[j].page = script'[i].page /\ j < i => j \in entered'
  <2>1. CASE /\ replay'[q].page = replay[q].page /\ replay'[q].left \subseteq replay[q].left
             /\ \A j \in replay[q].left \ replay'[q].left : j \in entered
    <3>1. i \in replay[q].left /\ i \in Made /\ AppliedBefore(i, replay[q].left)
      BY <1>2, <2>1 DEF InOrder, PhoneTyped
    <3>2. PageOf(i) # "worker"
      BY <3>1, <1>2, <2>1 DEF InHands
    <3> QED BY <3>1, <3>2, <2>1, <1>0, BeforeKept
  <2>2. CASE replay'[q].left = ListQueue(replay'[q].page) /\ UNCHANGED <<script, stored, entered>>
    <3>1. ASSUME NEW j \in stored, j \notin ListQueue(replay'[q].page), PageOf(j) = PageOf(i)
          PROVE  j \in entered
      <4>1. j \notin queue /\ PageOf(j) # "worker"
        BY <3>1, <2>2, <1>2 DEF ListQueue
      <4> QED BY <4>1 DEF NothingDropped
    <3> QED BY <3>1, <2>2 DEF PageOf
  <2> QED BY <1>2, <2>1, <2>2, LeftPasses DEF Passes
<1>3. ASSUME NEW m \in wire', script'[m.item].page # "worker", m.item \in stored'
      PROVE  \A j \in stored' \ {} :
               script'[j].page = script'[m.item].page /\ j < m.item => j \in entered'
  <2>0. PageOf(m.item) # "worker" /\ done + 1 \notin Made
    BY <1>0, <1>3, Scripted DEF PageOf, Made
  <2>1. m.item \in stored \/ m.item \in Made' \ Made
    BY <1>3, <2>0, StepStored
  <2>2. CASE \E n \in wire : n.item = m.item
    <3>1. m.item \in Made /\ AppliedBefore(m.item, {})
      BY <2>0, <2>1, <2>2 DEF InOrder, PhoneTyped
    <3> QED BY <3>1, <2>0, BeforeKept
  <2>3. CASE m.item = done + 1 /\ UNCHANGED stored
    BY <2>0, <2>3, <1>3 DEF PhoneTyped
  <2>4. ASSUME NEW r \in Replay, replay[r].left # {}, m.item = Oldest(r),
               UNCHANGED <<script, stored, entered>>
        PROVE  \A j \in stored' \ {} :
                 script'[j].page = script'[m.item].page /\ j < m.item => j \in entered'
    <3>1. /\ m.item \in replay[r].left /\ \A j \in replay[r].left : m.item <= j
          /\ replay[r].left \subseteq Made
      BY <2>4, OldestIn DEF PhoneTyped
    <3>2. replay[r].page = PageOf(m.item)
      BY <3>1 DEF InHands
    <3>3. AppliedBefore(m.item, replay[r].left)
      BY <3>1, <3>2, <2>0 DEF InOrder
    <3>4. ASSUME NEW j \in stored, PageOf(j) = PageOf(m.item), j < m.item PROVE j \in entered
      <4>1. j \notin replay[r].left
        BY <3>1, <3>4, Scripted
      <4> QED BY <3>3, <3>4, <4>1 DEF AppliedBefore
    <3> QED BY <3>4, <2>4 DEF PageOf
  <2> QED BY <2>2, <2>3, <2>4, WireSteps
<1> QED BY <1>2, <1>3 DEF InOrder, AppliedBefore, PageOf

LEMMA StepQueueInv == QueueInv /\ [PhoneNext]_phoneVars => QueueInv'
<1> SUFFICES ASSUME QueueInv, [PhoneNext]_phoneVars PROVE QueueInv'
  OBVIOUS
<1>1. PhoneTyped' /\ InOrder' /\ QueueOrderKept'
  BY StepPhoneTyped, StepInOrder, StepOrder DEF QueueInv
<1>2. InHands' /\ queue' \subseteq stored' /\ NothingDropped'
  BY StepInHand, StepStored DEF QueueInv
<1> QED BY <1>1, <1>2 DEF QueueInv

LEMMA InitQueueInv == PhoneInit => QueueInv
<1> SUFFICES ASSUME PhoneInit PROVE QueueInv
  OBVIOUS
<1>1. PhoneTyped
  BY InitTyped
<1>2. InHands
  BY DEF PhoneInit, InHands, Idle
<1>3. InOrder
  BY DEF PhoneInit, InOrder, Idle
<1> QED BY <1>1, <1>2, <1>3 DEF PhoneInit, QueueInv, NothingDropped, QueueOrderKept

-----------------------------------------------------------------------------
(* What the worker does next is neither applied nor answered.              *)
LEMMA Performed ==
  ASSUME PhoneTyped, Perform
  PROVE  /\ Made' = Made \cup {done + 1} /\ done + 1 \in Item /\ done + 1 \notin Made
         /\ done + 1 \notin entered /\ done + 1 \notin answered
         /\ UNCHANGED <<script, entered, answered, replay>>
         /\ Made \subseteq Item
<1>1. done \in Nat /\ Made \subseteq Item
  BY Scripted
<1>2. Made' = Made \cup {done + 1} /\ done + 1 \notin Made
  BY <1>1 DEF Perform, Made
<1> QED BY <1>1, <1>2, Scripted DEF Perform, PhoneTyped, Item

LEMMA StepDelivery ==
  ASSUME QueueInv, Delivery, [PhoneNext]_phoneVars
  PROVE  Delivery'
<1> USE DEF tables, history
<1>t. PhoneTyped /\ script' = script
  BY StepStored DEF QueueInv
<1>1. CASE UNCHANGED <<done, purchase, entered>>
  BY <1>1, <1>t DEF Delivery, Received, Made, Op
<1>2. CASE Perform
  <2>1. (\E i \in Made : Received(i)) <=> \E i \in Made' : Received(i)'
    BY <1>2, <1>t, Performed DEF Received, Op
  <2> QED BY <1>2, <2>1 DEF Perform, Delivery
<1>3. ASSUME NEW m \in wire, Serve(m) PROVE Delivery'
  <2>1. m.item \in Made /\ UNCHANGED <<script, done>> /\ Made' = Made
    BY <1>3, <1>t DEF Serve, PhoneTyped, Made
  <2>2. \/ Does(m.item) /\ entered' = entered \cup {m.item}
        \/ UNCHANGED <<tables, entered>>
    BY <1>3 DEF Serve
  <2>3. CASE UNCHANGED <<tables, entered>>
    BY <2>1, <2>3 DEF Delivery, Received, Op
  <2>4. CASE Does(m.item) /\ entered' = entered \cup {m.item} /\ Op(m.item) = "receive"
    BY <2>1, <2>4 DEF Delivery, Received, Op, Does
  <2>5. CASE Does(m.item) /\ entered' = entered \cup {m.item} /\ Op(m.item) # "receive"
    <3>1. UNCHANGED purchase
      BY <2>5 DEF Does
    <3> QED BY <2>1, <2>5, <3>1 DEF Delivery, Received, Op
  <2> QED BY <2>2, <2>3, <2>4, <2>5
<1>4. UNCHANGED <<done, purchase, entered>> \/ Perform \/ \E m \in wire : Serve(m)
  BY DEF PhoneNext, phoneVars, phone, Intercept, GoOnline, GoOffline, Sell, SyncQueue, Send, Lose, Close,
         TakeAnswer, RemoveFromQueue
<1> QED BY <1>1, <1>2, <1>3, <1>4

(* Nothing is put on its way but what the worker does. *)
LEMMA OnlyPerformSends ==
  ASSUME PhoneTyped, InHands, queue \subseteq stored, NothingDropped, [PhoneNext]_phoneVars, ~ Perform, NEW op
  PROVE  OnItsWay(op)' \subseteq OnItsWay(op)
<1> USE DEF tables, history
<1>0. script' = script
  BY StepStored
<1>1. \A i \in queue' : i \in queue \/ \E m \in wire : m.item = i
  BY DEF PhoneNext, phoneVars, phone, GoOnline, GoOffline, Sell, SyncQueue, Send, Lose, Close, TakeAnswer,
         RemoveFromQueue, Serve, Intercept
<1>2. \A r \in Replay : \A i \in replay'[r].left : i \in queue \/ i \in replay[r].left
  BY LeftPasses DEF Passes, ListQueue
<1>3. ASSUME NEW m \in wire'
      PROVE  (\E n \in wire : n.item = m.item) \/ \E r \in Replay : m.item \in replay[r].left
  <2>1. CASE \E r \in Replay : Send(r)
    BY <2>1, OldestIn DEF Send
  <2>2. CASE (\E r \in Replay : Lose(r)) \/ \E n \in wire : Intercept(n)
    <3>1. PICK n : Drops(n)
      BY <2>2 DEF Lose, Intercept
    <3> QED BY <3>1 DEF Drops
  <2>3. \/ (\E r \in Replay : Send(r) \/ Lose(r)) \/ (\E n \in wire : Intercept(n))
        \/ wire' \subseteq wire
    BY DEF PhoneNext, phoneVars, phone, GoOnline, GoOffline, Sell, Serve, SyncQueue, Close,
           TakeAnswer, RemoveFromQueue
  <2> QED BY <2>1, <2>2, <2>3
<1> QED BY <1>0, <1>1, <1>2, <1>3 DEF OnItsWay, Op

LEMMA PerformSends ==
  ASSUME PhoneTyped, Perform, NEW op
  PROVE  OnItsWay(op)' = OnItsWay(op) \cup (IF Op(done + 1) = op THEN {done + 1} ELSE {})
<1>1. /\ replay' = replay /\ script' = script
      /\ \/ queue' = queue /\ wire' = wire \cup {[item |-> done + 1, by |-> "form"]}
         \/ queue' = queue \cup {done + 1} /\ wire' = wire
  BY DEF Perform
<1> DEFINE Way(q, w) == q \cup {m.item : m \in w} \cup UNION {replay[r].left : r \in Replay}
<1>2. Way(queue', wire') = Way(queue, wire) \cup {done + 1}
  <2>1. CASE queue' = queue /\ wire' = wire \cup {[item |-> done + 1, by |-> "form"]}
    <3>1. {m.item : m \in wire'} = {m.item : m \in wire} \cup {done + 1}
      <4> DEFINE new == [item |-> done + 1, by |-> "form"]
      <4>1. wire' = wire \cup {new} /\ new.item = done + 1
        BY <2>1
      <4> HIDE DEF new
      <4> QED BY <4>1
    <3> QED BY <2>1, <3>1
  <2>2. CASE queue' = queue \cup {done + 1} /\ wire' = wire
    BY <2>2
  <2> QED BY <1>1, <2>1, <2>2
<1>3. /\ OnItsWay(op)' = {i \in Way(queue', wire') : Op(i) = op}
      /\ OnItsWay(op) = {i \in Way(queue, wire) : Op(i) = op}
  BY <1>1 DEF OnItsWay, Op
<1> HIDE DEF Way
<1> QED BY <1>2, <1>3

-----------------------------------------------------------------------------
(* What the worker does keeps the books as far behind the shelf as what is *)
(* not booked says.                                                        *)
LEMMA PerformCounts ==
  ASSUME PhoneTyped, Counts, Perform
  PROVE  Counts'
<1> DEFINE i == done + 1
<1>0. /\ Made' = Made \cup {i} /\ i \in Item /\ i \notin Made /\ Made \subseteq Item
      /\ UNCHANGED <<script, entered, book, last, sound>> /\ entered \subseteq Made
      /\ shelf' = IF Op(i) = "receive" THEN shelf + Arriving ELSE shelf
      /\ counted' = [counted EXCEPT ![i] = shelf]
  BY Performed DEF Perform, tables, PhoneTyped
<1>1. /\ stale \subseteq stale'
      /\ Op(i) = "receive" => OnItsWay("count") \subseteq stale'
      /\ Op(i) = "count" /\ OnItsWay("receive") # {} => i \in stale'
  BY DEF Perform
<1>2. /\ \A op : OnItsWay(op)' = OnItsWay(op) \cup (IF Op(i) = op THEN {i} ELSE {})
      /\ OnItsWay("count") \subseteq Made
  BY PerformSends, OnWayMade
<1>3. i > last /\ last \in Nat /\ \A j \in Made : j < i
  BY Scripted DEF PhoneTyped, Made
<1> HIDE DEF i
<1>4. /\ \A j \in Made : counted'[j] = counted[j]
      /\ counted'[i] = shelf
  BY <1>0 DEF PhoneTyped
<1>5. ASSUME NEW j \in OnItsWay("count")' \ stale' PROVE Fresh(j)'
  <2>1. Op(i) # "receive"
    BY <1>1, <1>2, <1>5
  <2>2. /\ OnItsWay("receive")' = OnItsWay("receive") /\ shelf' = shelf
        /\ \A k \in Made' : Op(k)' = "receive" => k \in Made /\ Op(k) = "receive"
    BY <1>0, <1>2, <2>1 DEF Op
  <2>3. CASE j = i
    <3>1. Op(i) = "count"
      BY <1>0, <1>2, <1>5, <2>3
    <3>2. OnItsWay("receive") = {}
      BY <1>1, <1>5, <2>3, <3>1
    <3> QED BY <1>3, <1>4, <2>2, <2>3, <3>2 DEF Fresh
  <2>4. CASE j # i
    <3>1. j \in OnItsWay("count") \ stale /\ j \in Made
      BY <1>1, <1>2, <1>5, <2>4
    <3>2. Fresh(j)
      BY <3>1 DEF Counts
    <3> QED BY <1>4, <2>2, <3>1, <3>2 DEF Fresh
  <2> QED BY <2>3, <2>4
<1>6. ASSUME sound' PROVE book' = shelf' - Missing' /\ \A j \in OnItsWay("receive")' : j > last'
  <2>1. book = shelf - Missing /\ \A j \in OnItsWay("receive") : j > last
    BY <1>0, <1>6 DEF Counts
  <2>2. CASE Op(i) = "receive"
    <3>1. Missing = 0
      BY <1>0, <2>2, Scripted DEF Missing
    <3>2. Missing' = Arriving
      BY <1>0, <1>3, <2>2 DEF Missing, Op
    <3> QED BY <1>0, <1>2, <1>3, <2>1, <2>2, <3>1, <3>2, QuantityAssumption DEF PhoneTyped
  <2>3. CASE Op(i) # "receive"
    <3>1. Missing' = Missing
      BY <1>0, <2>3 DEF Missing, Op
    <3> QED BY <1>0, <1>2, <2>1, <2>3, <3>1
  <2> QED BY <2>2, <2>3
<1> QED BY <1>5, <1>6 DEF Counts

(* A count that is handled says what is on the shelf or is not sound; a    *)
(* delivery that is handled is not missing any more.                       *)
LEMMA HandleCounts ==
  ASSUME QueueInv, Delivery, Counts, NEW m \in wire, Serve(m)
  PROVE  Counts'
<1>0. /\ m.item \in Made /\ PhoneTyped /\ Made \subseteq Nat
      /\ UNCHANGED <<script, done, shelf, counted, stale>> /\ Made' = Made
  BY Scripted DEF Serve, QueueInv, PhoneTyped, Made
<1>1. \A op : OnItsWay(op)' \subseteq OnItsWay(op)
  <2>1. ~ Perform
    BY <1>0, Scripted DEF Perform
  <2> QED BY <2>1, OnlyPerformSends DEF QueueInv, PhoneNext
<1>2. m.item \in OnItsWay(Op(m.item))
  BY DEF OnItsWay
<1>3. \A i \in Made : Op(i) = "receive" /\ Op(m.item) = "receive" => i = m.item
  BY <1>0, Scripted
<1>4. ASSUME NEW i \in OnItsWay("count")' \ stale' PROVE Fresh(i)'
  <2>1. Fresh(i)
    BY <1>0, <1>1, <1>4 DEF Counts
  <2> QED BY <1>0, <1>1, <2>1 DEF Fresh, Op
<1>5. CASE /\ UNCHANGED <<book, last, sound>>
           /\ \A i \in Made : Op(i) = "receive" => (i \in entered' <=> i \in entered)
  <2>1. Missing' = Missing
    BY <1>0, <1>5 DEF Missing, Op
  <2> QED BY <1>0, <1>1, <1>4, <1>5, <2>1 DEF Counts
<1>6. CASE UNCHANGED <<tables, entered>> /\ UNCHANGED <<last, sound>>
  BY <1>5, <1>6 DEF tables
<1>7. CASE /\ Does(m.item) /\ entered' = entered \cup {m.item} /\ UNCHANGED <<last, sound>>
           /\ Op(m.item) = "receive"
  <2>1. book' = book + Arriving /\ purchase = "OPEN"
    BY <1>7 DEF Does, Receivable
  <2>2. m.item \notin entered
    BY <1>0, <1>7, <2>1 DEF Delivery, Received
  <2>3. sound => Missing = Arriving
    BY <1>0, <1>2, <1>7, <2>2 DEF Missing, Counts
  <2>4. Missing' = 0
    BY <1>0, <1>3, <1>7 DEF Missing, Op
  <2> QED BY <1>0, <1>1, <1>4, <1>7, <2>1, <2>3, <2>4, QuantityAssumption DEF Counts, PhoneTyped
<1>8. CASE /\ Does(m.item) /\ last' = m.item /\ sound' = (m.item \notin stale)
           /\ Op(m.item) = "count"
  <2> SUFFICES ASSUME sound' PROVE book' = shelf' - Missing' /\ \A j \in OnItsWay("receive")' : j > last'
    BY <1>4 DEF Counts
  <2>1. Fresh(m.item) /\ book' = counted[m.item]
    BY <1>2, <1>8 DEF Counts, Does
  <2>2. ASSUME NEW j \in Made, Op(j) = "receive" PROVE ~ (j > m.item)
    <3>1. j < m.item
      BY <2>1, <2>2 DEF Fresh
    <3>2. j \in Nat /\ m.item \in Nat
      BY <1>0
    <3> QED BY <3>1, <3>2
  <2>3. Missing' = 0
    BY <1>0, <1>8, <2>2 DEF Missing, Op
  <2> QED BY <1>0, <1>1, <2>1, <2>3 DEF Fresh, PhoneTyped
<1>9. CASE /\ Does(m.item) /\ entered' = entered \cup {m.item} /\ UNCHANGED <<last, sound>>
           /\ Op(m.item) \notin {"receive", "count"}
  <2>1. book' = book
    BY <1>9 DEF Does, tables
  <2> QED BY <1>0, <1>5, <1>9, <2>1
<1>10. \/ UNCHANGED <<tables, entered>> /\ UNCHANGED <<last, sound>>
       \/ /\ Does(m.item) /\ entered' = entered \cup {m.item}
          /\ IF Op(m.item) = "count"
             THEN last' = m.item /\ sound' = (m.item \notin stale)
             ELSE UNCHANGED <<last, sound>>
  BY DEF Serve
<1> QED BY <1>6, <1>7, <1>8, <1>9, <1>10

LEMMA StepCounts ==
  ASSUME QueueInv, Delivery, Counts, [PhoneNext]_phoneVars
  PROVE  Counts'
<1>1. CASE Perform
  BY <1>1, PerformCounts DEF QueueInv
<1>2. ASSUME NEW m \in wire, Serve(m) PROVE Counts'
  BY <1>2, HandleCounts
<1>3. CASE ~ Perform /\ ~ \E m \in wire : Serve(m)
  <2>1. /\ PhoneTyped /\ UNCHANGED <<script, done, counted, entered, last, sound>> /\ Made' = Made
    BY <1>3 DEF PhoneNext, phoneVars, phone, tables, history, Intercept, GoOnline, GoOffline, Sell, SyncQueue,
       Send, Lose, Close, TakeAnswer, RemoveFromQueue, QueueInv, Made
  <2>2. \A op : OnItsWay(op)' \subseteq OnItsWay(op)
    BY <1>3, OnlyPerformSends DEF QueueInv
  <2>3. Missing' = Missing
    BY <2>1 DEF Missing, Op
  <2>4. CASE Sell
    <3>1. shelf' = shelf - 1 /\ book' = book - 1 /\ stale' = stale \cup OnItsWay("count")
      BY <2>4 DEF Sell
    <3>2. OnItsWay("count")' \ stale' = {}
      BY <2>2, <3>1
    <3>3. sound => book' = shelf' - Missing'
      BY <2>1, <2>3, <3>1, QuantityAssumption DEF Counts, PhoneTyped, Missing
    <3> QED BY <2>1, <2>2, <3>2, <3>3 DEF Counts
  <2>5. CASE ~ Sell
    <3>1. UNCHANGED <<shelf, book, stale>>
      BY <1>3, <2>5 DEF PhoneNext, phoneVars, phone, tables, history, Intercept, GoOnline, GoOffline,
         SyncQueue, Send, Lose, Close, TakeAnswer, RemoveFromQueue
    <3> QED BY <2>1, <2>2, <2>3, <3>1 DEF Counts, Fresh, Op
  <2> QED BY <2>4, <2>5
<1> QED BY <1>1, <1>2, <1>3

LEMMA InitBook == PhoneInit => BookInv
<1> SUFFICES ASSUME PhoneInit PROVE BookInv
  OBVIOUS
<1>1. QueueInv /\ Made = {}
  BY InitQueueInv DEF PhoneInit, Made
<1>2. Delivery
  BY <1>1 DEF PhoneInit, Delivery
<1>3. \A op : OnItsWay(op) = {}
  BY DEF PhoneInit, OnItsWay, Idle
<1>4. Counts
  BY <1>3 DEF PhoneInit, Counts
<1> QED BY <1>1, <1>2, <1>4 DEF BookInv

LEMMA StepBook == BookInv /\ [PhoneNext]_phoneVars => BookInv'
BY StepQueueInv, StepDelivery, StepCounts DEF BookInv

-----------------------------------------------------------------------------
(* QueueOrderKept: whatever the scripts, the number of replays under way   *)
(* and the requests that are lost, nothing that a page stored is applied   *)
(* before what it stored earlier: a replay begins with the whole queue of  *)
(* its page, takes the oldest item and gives up at the first that fails.   *)
THEOREM SentInOrder == PhoneSpec => []QueueOrderKept
<1>1. QueueInv => QueueOrderKept
  BY DEF QueueInv
<1> QED BY <1>1, InitQueueInv, StepQueueInv, PTL DEF PhoneSpec

(* NothingDropped: an item leaves a page's queue only when the server has  *)
(* applied it, and the worker's only when it was answered: what a replay   *)
(* removes is the item that it had the answer of.                          *)
THEOREM RemovedAnswered == PhoneSpec => []NothingDropped
<1>1. QueueInv => NothingDropped
  BY DEF QueueInv
<1> QED BY <1>1, InitQueueInv, StepQueueInv, PTL DEF PhoneSpec

(* BookIsShelf: after a count that stock did not overtake the books hold   *)
(* what is on the shelf, less the delivery that was taken in since and is  *)
(* not booked.  The invariant carries what the books lack, and that a      *)
(* count on its way that stock has not overtaken says what the shelf holds.*)
THEOREM CountedIsShelf == PhoneSpec => []BookIsShelf
<1>1. ASSUME BookInv PROVE BookIsShelf
  <2> SUFFICES ASSUME sound, \A j \in last..done : Op(j) = "receive" => j \in entered
               PROVE  book = shelf
    BY DEF BookIsShelf
  <2>1. PhoneTyped /\ Counts
    BY <1>1 DEF BookInv, QueueInv
  <2>2. last \in Nat /\ done \in Nat /\ shelf \in Int
    BY <2>1, Scripted DEF PhoneTyped
  <2>3. \A i \in Made : i > last => i \in last..done
    BY <2>2 DEF Made
  <2>4. Missing = 0
    BY <2>3 DEF Missing
  <2> QED BY <2>1, <2>2, <2>4 DEF Counts
<1> QED BY <1>1, InitBook, StepBook, PTL DEF PhoneSpec
=============================================================================
