--------------------------- MODULE PaymentPromise ---------------------------
(***************************************************************************)
(* What a Payment promises a merchant and a Consumer, with no attempts, no *)
(* locks, no sweeps and no processes.  Money moves at most once for an     *)
(* intent and only while it is open; an intent that closes without it      *)
(* stays unpaid for ever; a live one succeeds only once it moved; and the  *)
(* ending is announced at most once, after it was decided.                 *)
(***************************************************************************)
EXTENDS Naturals

CONSTANTS Intents, LiveIntents

Endings == {"succeeded", "failed", "expired"}

VARIABLES
  outcome,    \* how the Payment ended, or "open"
  moved,      \* intents whose money moved
  announced   \* how often each ending was announced

promise == <<outcome, moved, announced>>

Init ==
  /\ outcome = [i \in Intents |-> "open"]
  /\ moved = {}
  /\ announced = [i \in Intents |-> [e \in Endings |-> 0]]

MoveMoney(i) ==
  /\ outcome[i] = "open"
  /\ i \notin moved
  /\ moved' = moved \cup {i}
  /\ UNCHANGED <<outcome, announced>>

\* Several overdue intents expire in one statement, so an ending is decided
\* for a set of them.
Decide(S, ending) ==
  /\ \A i \in S : outcome[i] = "open"
  /\ ending = "succeeded" => S \cap LiveIntents \subseteq moved
  /\ ending # "succeeded" => S \cap moved = {}
  /\ outcome' = [i \in Intents |-> IF i \in S THEN ending ELSE outcome[i]]
  /\ UNCHANGED <<moved, announced>>

Announce(i) ==
  /\ outcome[i] # "open"
  /\ \A e \in Endings : announced[i][e] = 0
  /\ announced' = [announced EXCEPT ![i][outcome[i]] = 1]
  /\ UNCHANGED <<outcome, moved>>

Next ==
  \/ \E i \in Intents : MoveMoney(i) \/ Announce(i)
  \/ \E S \in SUBSET Intents, ending \in Endings : Decide(S, ending)

Spec == Init /\ [][Next]_promise

=============================================================================
