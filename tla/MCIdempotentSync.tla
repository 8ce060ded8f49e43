--------------------------- MODULE MCIdempotentSync ---------------------------
(* A small instance of IdempotentSync for TLC.                             *)
EXTENDS IdempotentSync, TLC

CONSTANTS MaxApplied   \* bound: how often a mutation takes effect

Bounded == \A a \in Action : applied[a] <= MaxApplied

Symmetry == Permutations(Call)

(* History: the calls that may repeat an effect (excuse), and for each     *)
(* action the events that account for a repetition (excused).              *)
VARIABLES excuse, excused

gaps == <<excuse, excused>>

PastLookup(c) == stage[c] \in {"handling", "storing"}

(* A PUT has no key, a key older than a day does not answer, and a request *)
(* about the same action is past its own lookup.                           *)
Unanswerable(c) ==
  \/ about[c] \notin Keyed
  \/ keyRow[about[c]] = "expired"
  \/ \E d \in Call \ {c} : PastLookup(d) /\ about[d] = about[c]

(* The effect of a call with an excuse, or the end of another call that    *)
(* took effect and left no key.                                            *)
Accounts(c) ==
  \/ c \in excuse /\ stage[c] = "handling" /\ stage'[c] = "storing"
  \/ c \notin excuse /\ stage[c] = "storing" /\ stage'[c] = "free" /\ keyRow'[about[c]] = "none"

MCInit == Init /\ excuse = {} /\ excused = [a \in Action |-> 0]

MCNext ==
  /\ Next
  /\ excuse' = {c \in Call : /\ PastLookup(c)'
                             /\ c \in excuse \/ (stage[c] = "arrived" /\ Unanswerable(c))}
  /\ excused' = [a \in Action |->
       IF \E c \in Call : about[c] = a /\ Accounts(c) THEN excused[a] + 1 ELSE excused[a]]

MCSpec == MCInit /\ [][MCNext]_<<vars, gaps>>

(* The key that the first effect left answers for the requests that come   *)
(* later, whoever sends them and however often.  Every effect beyond the   *)
(* first has an event of its own that accounts for it: its request came as *)
(* a PUT, after the key's day or while another about the action was past   *)
(* its lookup, or an effect without such an excuse left no key.            *)
AppliedOnce == \A a \in Action : applied[a] <= 1 + excused[a]
=============================================================================
