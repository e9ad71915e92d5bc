---------------------------- MODULE PayoutPromise ----------------------------
(***************************************************************************)
(* What the naira rail promises about a settlement, with no processes, no  *)
(* webhook deliveries and no clocks.                                       *)
(*                                                                         *)
(* The conversion is asked for once.  The payout is open until it is paid, *)
(* which is final and true of the bank, or given up, which is neither: the *)
(* naira of a payout given up may still land, and it may open again.  Only *)
(* a payout that is paid completes the Payment and is announced, each of   *)
(* them once.                                                              *)
(***************************************************************************)
EXTENDS Naturals

CONSTANT Settlements

VARIABLES
  payout,     \* none, open, failed, paid
  requests,   \* how often the conversion was asked for
  bank,       \* what became of it: none, asked, landed, refused
  payment,    \* settling, succeeded
  receipts,   \* how often the Payment's success was announced
  notices     \* how often the payout's was

promise == <<payout, requests, bank, payment, receipts, notices>>

Init ==
  /\ payout = [s \in Settlements |-> "none"]
  /\ requests = [s \in Settlements |-> 0]
  /\ bank = [s \in Settlements |-> "none"]
  /\ payment = [s \in Settlements |-> "settling"]
  /\ receipts = [s \in Settlements |-> 0]
  /\ notices = [s \in Settlements |-> 0]

Turn(s, from, to) ==
  /\ payout[s] = from
  /\ payout' = [payout EXCEPT ![s] = to]
  /\ UNCHANGED <<requests, bank, payment, receipts, notices>>

Open(s) == Turn(s, "none", "open")
GiveUp(s) == Turn(s, "open", "failed")
Reopen(s) == Turn(s, "failed", "open")
Pay(s) == bank[s] = "landed" /\ Turn(s, "open", "paid")

\* Also of a payout given up before its request was sent.
Ask(s) ==
  /\ payout[s] # "none" /\ requests[s] = 0
  /\ requests' = [requests EXCEPT ![s] = 1]
  /\ bank' = [bank EXCEPT ![s] = "asked"]
  /\ UNCHANGED <<payout, payment, receipts, notices>>

Convert(s, outcome) ==
  /\ bank[s] = "asked"
  /\ bank' = [bank EXCEPT ![s] = outcome]
  /\ UNCHANGED <<payout, requests, payment, receipts, notices>>

Complete(s) ==
  /\ payout[s] = "paid" /\ payment[s] = "settling"
  /\ payment' = [payment EXCEPT ![s] = "succeeded"]
  /\ receipts' = [receipts EXCEPT ![s] = 1]
  /\ UNCHANGED <<payout, requests, bank, notices>>

Announce(s) ==
  /\ payout[s] = "paid" /\ notices[s] = 0
  /\ notices' = [notices EXCEPT ![s] = 1]
  /\ UNCHANGED <<payout, requests, bank, payment, receipts>>

Next ==
  \E s \in Settlements :
    \/ Open(s) \/ GiveUp(s) \/ Reopen(s) \/ Pay(s)
    \/ Ask(s) \/ \E outcome \in {"landed", "refused"} : Convert(s, outcome)
    \/ Complete(s) \/ Announce(s)

Spec == Init /\ [][Next]_promise

=============================================================================
