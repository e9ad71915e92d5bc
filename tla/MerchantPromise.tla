--------------------------- MODULE MerchantPromise ---------------------------
(***************************************************************************)
(* What a merchant who writes under Idempotency-Keys is promised, with no  *)
(* requests, no locks, no connections and no stored answers.               *)
(*                                                                         *)
(* Every settled payment has an account of what may still be given back.   *)
(* A key books one refund, for good, out of the account of one payment.    *)
(* At most one transfer is sent for it, none in test mode; it succeeds     *)
(* only once its transfer was sent, and if it fails its amount goes back   *)
(* to the account.  A key agrees the terms of one intent, for good, and    *)
(* that is announced at most once.                                         *)
(***************************************************************************)
EXTENDS Integers

CONSTANTS Keys, Payments, Sandbox, Manual, Bodies, Worth, None

VARIABLES
  settled,    \* payments whose intent succeeded
  left,       \* what may still be refunded of each
  refund,     \* the refund a key booked
  sent,       \* transfers sent for it
  agreed,     \* the terms of the intent a key created
  announced   \* how often that was announced

promise == <<settled, left, refund, sent, agreed, announced>>

Init ==
  /\ settled = {}
  /\ left = [p \in Payments |-> Worth]
  /\ refund = [k \in Keys |-> None]
  /\ sent = [k \in Keys |-> 0]
  /\ agreed = [k \in Keys |-> None]
  /\ announced = [k \in Keys |-> 0]

Settle(p) ==
  /\ p \notin settled
  /\ settled' = settled \cup {p}
  /\ UNCHANGED <<left, refund, sent, agreed, announced>>

Book(k, p, n) ==
  /\ refund[k] = None
  /\ p \in settled /\ (p \in Sandbox \/ p \notin Manual)
  /\ n <= left[p]
  /\ refund' = [refund EXCEPT ![k] = [payment |-> p, amount |-> n, status |-> "pending"]]
  /\ left' = [left EXCEPT ![p] = @ - n]
  /\ UNCHANGED <<settled, sent, agreed, announced>>

Pending(k) == refund[k] # None /\ refund[k].status = "pending"

Send(k) ==
  /\ Pending(k) /\ refund[k].payment \notin Sandbox
  /\ sent[k] = 0
  /\ sent' = [sent EXCEPT ![k] = 1]
  /\ UNCHANGED <<settled, left, refund, agreed, announced>>

Succeed(k) ==
  /\ Pending(k)
  /\ refund[k].payment \in Sandbox \/ sent[k] = 1
  /\ refund' = [refund EXCEPT ![k].status = "succeeded"]
  /\ UNCHANGED <<settled, left, sent, agreed, announced>>

\* Also of a refund whose transfer was sent: the account then holds more than
\* the chain does, which nothing corrects.
Fail(k) ==
  /\ Pending(k)
  /\ refund' = [refund EXCEPT ![k].status = "failed"]
  /\ left' = [left EXCEPT ![refund[k].payment] = @ + refund[k].amount]
  /\ UNCHANGED <<settled, sent, agreed, announced>>

Agree(k, terms) ==
  /\ agreed[k] = None
  /\ agreed' = [agreed EXCEPT ![k] = terms]
  /\ UNCHANGED <<settled, left, refund, sent, announced>>

Announce(k) ==
  /\ agreed[k] # None
  /\ announced[k] = 0
  /\ announced' = [announced EXCEPT ![k] = 1]
  /\ UNCHANGED <<settled, left, refund, sent, agreed>>

Next ==
  \/ \E p \in Payments : Settle(p)
  \/ \E k \in Keys, p \in Payments, n \in 1..Worth : Book(k, p, n)
  \/ \E k \in Keys : Send(k) \/ Succeed(k) \/ Fail(k) \/ Announce(k)
  \/ \E k \in Keys, terms \in Bodies : Agree(k, terms)

Spec == Init /\ [][Next]_promise

=============================================================================
