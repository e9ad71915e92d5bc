----------------------------- MODULE FeedPromise -----------------------------
(***************************************************************************)
(* What Activity promises about a Consumer's transactions, with no         *)
(* handlers, no webhook deliveries and no clocks.                          *)
(*                                                                         *)
(* What a row shows is true of the chain when it is written, and its end   *)
(* is its last word.  Only a settled Payment is linked, and for good.  The *)
(* bookmark a replay starts at moves up, to a transaction that is on show. *)
(***************************************************************************)
EXTENDS Naturals

CONSTANTS Txs, Slots

VARIABLES
  fate,      \* of a transaction: none, flying, landed, errored, lost
  slot,      \* where it landed
  paid,      \* Payments that settled
  shown,     \* the status on show, or none
  linked,    \* transactions shown as a Payment's
  bookmark

promise == <<fate, slot, paid, shown, linked, bookmark>>

Final == {"CONFIRMED", "FAILED"}

Init ==
  /\ fate = [t \in Txs |-> "none"]
  /\ slot = [t \in Txs |-> 0]
  /\ paid = {}
  /\ shown = [t \in Txs |-> "none"]
  /\ linked = {}
  /\ bookmark = 0

Meet(t, to) ==
  /\ fate' = [fate EXCEPT ![t] = to]
  /\ UNCHANGED <<paid, shown, linked, bookmark>>

Send(t) == fate[t] = "none" /\ Meet(t, "flying") /\ UNCHANGED slot
Fail(t) == fate[t] = "flying" /\ (Meet(t, "errored") \/ Meet(t, "lost")) /\ UNCHANGED slot
Land(t) ==
  /\ fate[t] \in {"none", "flying"}
  /\ \E n \in Slots \ {0} :
       (\A u \in Txs : slot[u] <= n) /\ slot' = [slot EXCEPT ![t] = n]
  /\ Meet(t, "landed")

Settle(t) ==
  /\ fate[t] = "landed"
  /\ paid' = paid \cup {t}
  /\ UNCHANGED <<fate, slot, shown, linked, bookmark>>

True(t, status) ==
  CASE status = "PENDING" -> fate[t] # "none"
    [] status = "CONFIRMED" -> fate[t] = "landed"
    [] status = "FAILED" -> fate[t] \in {"errored", "lost"}

Write(t, status) ==
  /\ True(t, status)
  /\ shown[t] \in Final => status = shown[t]
  /\ shown' = [shown EXCEPT ![t] = status]
  /\ linked' = linked \/ (t \in paid /\ linked' = linked \cup {t})
  /\ UNCHANGED <<fate, slot, paid, bookmark>>

Index(t) ==
  /\ shown[t] = "CONFIRMED" /\ slot[t] > bookmark
  /\ bookmark' = slot[t]
  /\ UNCHANGED <<fate, slot, paid, shown, linked>>

Next ==
  \E t \in Txs :
    \/ Send(t) \/ Fail(t) \/ Land(t) \/ Settle(t) \/ Index(t)
    \/ \E status \in {"PENDING", "CONFIRMED", "FAILED"} : Write(t, status)

Spec == Init /\ [][Next]_promise

=============================================================================
