--------------------------- MODULE MCMerchantWrites ---------------------------
(***************************************************************************)
(* MerchantWrites on small instances.                                      *)
(***************************************************************************)
EXTENDS MerchantWrites, TLC

CONSTANTS r1, r2, r3, k1, k2, live, test, manual, b1, b2

TwoRequests == {r1, r2}
ThreeRequests == {r1, r2, r3}
AnyRequest == Permutations(ThreeRequests)
TwoKeys == {k1, k2}
ThreePayments == {live, test, manual}
OnePayment == {live}
TheTest == {test}
TheManual == {manual}
TwoBodies == {b1, b2}

Refund(k, p, n) == [key |-> k, body |-> [payment |-> p, amount |-> n]]
Intent(k, b) == [key |-> k, body |-> b]

\* The rest of a payment and a part of it under two keys, every other kind of
\* payment under one, and intents of two bodies under one key.
ManyAsks ==
  {Refund(k, live, n) : k \in TwoKeys, n \in {2, All}}
    \cup {Refund(k1, test, All), Refund(k1, manual, All)}
    \cup {Intent(k1, b) : b \in TwoBodies}
OneAsk == {Refund(k1, live, All)}

=============================================================================
